---- MODULE Spec2Model ----
(***************************************************************************)
(* CST -> AST visitor of solidity-parser-go (package solcparser).          *)
(*                                                                         *)
(* A CST node is a record [kind, text, children]: kind is the grammar      *)
(* production ("Terminal" for a raw token), text the token text of a       *)
(* terminal, children the ordered child nodes.  An AST value is a record:  *)
(* a node [Type |-> ..., fields], Nil (Go nil), Slice(s) (a Go slice) or   *)
(* Panic(msg) (the traversal aborted by panic(msg)).                       *)
(***************************************************************************)
EXTENDS Naturals, Sequences, FiniteSets, TLC

VARIABLES pc, op, arg, res, errors, pending, visited

vars == <<pc, op, arg, res, errors, pending, visited>>

(***************************************************************************)
(* Values                                                                  *)
(***************************************************************************)
Nil == [nil |-> TRUE]

Slice(s) == [elems |-> s]

Panic(msg) == [panic |-> msg]

IsPanic(v) == "panic" \in DOMAIN v

IsNil(v) == "nil" \in DOMAIN v

IsSlice(v) == "elems" \in DOMAIN v

IsNode(v) == "Type" \in DOMAIN v

(***************************************************************************)
(* CST construction and the antlr tree interface                           *)
(***************************************************************************)
Terminal(s) == [kind |-> "Terminal", text |-> s, children |-> <<>>]

Rule(k, ch) == [kind |-> k, text |-> "", children |-> ch]

IsTerminal(n) == n.kind = "Terminal"

RECURSIVE GetText(_)
GetText(n) ==
  IF IsTerminal(n) THEN n.text
  ELSE LET RECURSIVE cat(_)
           cat(i) == IF i > Len(n.children) THEN ""
                     ELSE GetText(n.children[i]) \o cat(i + 1)
       IN cat(1)

\* toText panics when handed nil (no GetText method); TextEval is that outcome,
\* toText the text of a node that is present.
toText(i) == IF IsNil(i) THEN "" ELSE GetText(i)

TextEval(i) == IF IsNil(i) THEN Panic("BUG: toText expr not found") ELSE Nil

(***************************************************************************)
(* Generated accessors of the parser contexts and the antlr runtime        *)
(***************************************************************************)
\* GetChild(i): the i-th child (0-based); nil when there is none.  Every use
\* of the result (toText, Visit) panics on nil.
GetChild(ctx, i) == IF i < Len(ctx.children) THEN ctx.children[i + 1] ELSE Nil

GetChildCount(ctx) == Len(ctx.children)

\* ctx.AllX(): the children that are X rule contexts, in order.
AllRule(ctx, k) ==
  LET isK(c) == c.kind = k IN SelectSeq(ctx.children, isK)

\* ctx.X(i): the i-th X rule context among the children, nil when absent.
RuleAt(ctx, k, i) ==
  LET all == AllRule(ctx, k) IN IF i < Len(all) THEN all[i + 1] ELSE Nil

\* ctx.X(): the first X rule context among the children, nil when absent.
RuleOf(ctx, k) == RuleAt(ctx, k, 0)

(***************************************************************************)
(* Go strings                                                              *)
(***************************************************************************)
\* strings.HasPrefix(s, prefix)
HasPrefix(s, prefix) ==
  Len(s) >= Len(prefix) /\ SubSeq(s, 1, Len(prefix)) = prefix

\* strings.TrimPrefix(s, prefix): s without the prefix when it has it.
TrimPrefix(s, prefix) ==
  IF HasPrefix(s, prefix) THEN SubSeq(s, Len(prefix) + 1, Len(s)) ELSE s

\* strings.TrimLeft and strings.TrimRight for a cutset of one character.
RECURSIVE TrimLeft(_, _)
TrimLeft(s, c) ==
  IF Len(s) > 0 /\ SubSeq(s, 1, 1) = c THEN TrimLeft(SubSeq(s, 2, Len(s)), c)
  ELSE s

RECURSIVE TrimRight(_, _)
TrimRight(s, c) ==
  IF Len(s) > 0 /\ SubSeq(s, Len(s), Len(s)) = c
  THEN TrimRight(SubSeq(s, 1, Len(s) - 1), c)
  ELSE s

\* strings.Trim(s, cutset) for a cutset of one character: every leading and
\* trailing occurrence of the character is removed, other characters stay.
Trim(s, c) == TrimRight(TrimLeft(s, c), c)

\* strings.Join(parts, "")
RECURSIVE Join(_)
Join(parts) == IF Len(parts) = 0 THEN "" ELSE Head(parts) \o Join(Tail(parts))

\* The lexer's token type of a terminal, for the token accessors.
TokenType(s) ==
  CASE s \in {"true", "false"} -> "BooleanLiteral"
    [] s = "type" -> "TypeKeyword"
    [] s = "external" -> "ExternalKeyword"
    [] s = "internal" -> "InternalKeyword"
    [] s = "public" -> "PublicKeyword"
    [] s = "private" -> "PrivateKeyword"
    [] s = "constant" -> "ConstantKeyword"
    [] s = "immutable" -> "ImmutableKeyword"
    [] s = "virtual" -> "VirtualKeyword"
    [] s = "indexed" -> "IndexedKeyword"
    [] HasPrefix(s, "hex\"") \/ HasPrefix(s, "hex'") -> "HexLiteralFragment"
    [] \/ HasPrefix(s, "\"") \/ HasPrefix(s, "'")
       \/ HasPrefix(s, "unicode\"") \/ HasPrefix(s, "unicode'")
         -> "StringLiteralFragment"
    [] OTHER -> "Other"

\* ctx.AllX() for a token X: the terminal children of that token type.
AllToken(ctx, t) ==
  LET isT(c) == IsTerminal(c) /\ TokenType(c.text) = t
  IN SelectSeq(ctx.children, isT)

\* ctx.X() for a token X: the first terminal child of that token type.
TokenOf(ctx, t) ==
  LET isT(c) == IsTerminal(c) /\ TokenType(c.text) = t
      all == SelectSeq(ctx.children, isT)
  IN IF Len(all) > 0 THEN all[1] ELSE Nil

(***************************************************************************)
(* Go slices and evaluation order                                          *)
(***************************************************************************)
\* append(...) onto a nil slice: still nil when nothing was appended.
NilAppend(s) == IF Len(s) = 0 THEN Nil ELSE Slice(s)

\* The first panic among the evaluations of a builder, in evaluation order.
RECURSIVE FirstPanic(_)
FirstPanic(evals) ==
  IF Len(evals) = 0 THEN Nil
  ELSE IF IsPanic(Head(evals)) THEN Head(evals)
  ELSE FirstPanic(Tail(evals))

\* A builder returns its node unless one of its evaluations panicked.
Build(node, evals) ==
  LET p == FirstPanic(evals) IN IF IsPanic(p) THEN p ELSE node

\* F(v), with v computed once however often F refers to it.
With(v, F(_)) == CHOOSE r \in {F(x) : x \in {v}} : TRUE

(***************************************************************************)
(* mapCommasToNulls                                                        *)
(***************************************************************************)
scanStepNoPanic(s, child) ==
  IF s.comma
  THEN IF toText(child) = ","
       THEN [s EXCEPT !.res = Append(s.res, Nil)]
       ELSE [s EXCEPT !.res = Append(s.res, child), !.comma = FALSE]
  ELSE [s EXCEPT !.comma = TRUE]

scanStep(s, child) ==
  IF s.comma
  THEN IF toText(child) = ","
       THEN [s EXCEPT !.res = Append(s.res, Nil)]
       ELSE [s EXCEPT !.res = Append(s.res, child), !.comma = FALSE]
  ELSE IF toText(child) # ","
       THEN [s EXCEPT !.panicked = TRUE]
       ELSE [s EXCEPT !.comma = TRUE]

RECURSIVE commaScan(_, _)
commaScan(tree, n) ==
  IF n = 0 THEN [res |-> <<>>, comma |-> TRUE, panicked |-> FALSE]
  ELSE LET p == commaScan(tree, n - 1)
       IN IF p.panicked THEN p ELSE scanStep(p, tree[n])

mapCommasToNullsNoTrailing(tree) ==
  IF Len(tree) = 0 THEN Slice(<<>>)
  ELSE LET s == commaScan(tree, Len(tree))
       IN IF s.panicked THEN Panic("Comma expected") ELSE Slice(s.res)

mapCommasToNulls(tree) ==
  IF Len(tree) = 0 THEN Slice(<<>>)
  ELSE LET s == commaScan(tree, Len(tree))
       IN IF s.panicked THEN Panic("Comma expected")
          ELSE IF s.comma THEN Slice(Append(s.res, Nil))
          ELSE Slice(s.res)

(***************************************************************************)
(* Visit: dispatch on the production, tag the node                         *)
(***************************************************************************)
RECURSIVE Visit(_), VisitAll(_), VisitExpression(_), Builder(_)

\* The registry that init() builds: one entry per exported Visit* method.
funcMap ==
  {"SourceUnit", "PragmaDirective", "ContractDefinition", "InheritanceSpecifier",
   "ContractPart", "StructDefinition", "VariableDeclaration", "Identifier",
   "StateVariableDeclaration", "FunctionDefinition", "Parameter",
   "ModifierInvocation", "Block", "Statement", "SimpleStatement",
   "ExpressionStatement", "Expression", "Mapping", "MappingKey", "NameValueList",
   "TupleExpression", "TypeNameExpression", "NumberLiteral", "HexLiteral",
   "PrimaryExpression", "ForStatement", "VariableDeclarationStatement",
   "WhileStatement", "DoWhileStatement", "IfStatement", "EventDefinition",
   "ImportDirective", "EnumDefinition", "EnumValue", "BreakStatement",
   "ContinueStatement", "ReturnStatement", "ModifierDefinition",
   "OverrideSpecifier", "FunctionTypeName", "FunctionTypeParameter",
   "UsingForDeclaration", "TypeName", "InlineAssemblyStatement", "AssemblyBlock",
   "AssemblyItem", "AssemblyExpression", "AssemblyCall", "AssemblyLiteral",
   "AssemblySwitch", "AssemblyCase", "AssemblyLocalDefinition",
   "AssemblyFunctionDefinition", "AssemblyAssignment", "AssemblyFor",
   "AssemblyIf", "AssemblyMember", "EmitStatement", "ThrowStatement",
   "FunctionCall", "CustomErrorDefinition", "TryStatement", "CatchClause",
   "ReturnParameters", "ParameterList", "FileLevelConstant",
   "UncheckedStatement", "TypeDefinition", "ElementaryTypeName",
   "UserDefinedTypeName", "RevertStatement"}

skipNodeOnlyStatements(i) == i \in {"ContractPart", "Statement", "SimpleStatement"}

skipNode(i) ==
  i \in {"ContractPart", "Statement", "SimpleStatement", "Expression", "TypeName",
         "MappingKey", "PrimaryExpression", "Parameter", "FunctionTypeParameter"}

SetTypeName(n, typ) == [n EXCEPT !.Type = typ]

\* Visit that leaves the tag of every builder's node as the builder set it.
VisitWithoutTag(i) ==
  IF IsNil(i) THEN Panic("nil pointer dereference")
  ELSE IF IsTerminal(i) THEN Nil
  ELSE IF i.kind \notin funcMap THEN Panic("BUG: visit not found")
  ELSE LET output == Builder(i)
       IN IF IsPanic(output) THEN output
          ELSE IF IsNil(output) THEN Nil
          ELSE IF ~IsNode(output) THEN Panic("interface conversion: not INode")
          ELSE output

\* Visit(nil) dereferences the nil type descriptor.
Visit(i) ==
  IF IsNil(i) THEN Panic("nil pointer dereference")
  ELSE IF IsTerminal(i) THEN Nil
  ELSE IF i.kind \notin funcMap THEN Panic("BUG: visit not found")
  ELSE LET output == Builder(i)
       IN IF IsPanic(output) THEN output
          ELSE IF IsNil(output) THEN Nil
          ELSE IF ~IsNode(output) THEN Panic("interface conversion: not INode")
          ELSE IF ~skipNode(i.kind) THEN SetTypeName(output, i.kind)
          ELSE output

VisitAll(nodes) == [k \in 1..Len(nodes) |-> Visit(nodes[k])]

(***************************************************************************)
(* Leaves                                                                  *)
(***************************************************************************)
VisitIdentifier(ctx) == [Type |-> "", Name |-> toText(ctx)]

Str(s) == [str |-> s]

VisitNumberLiteral(ctx) ==
  Build([Type |-> "", Number |-> toText(GetChild(ctx, 0)),
         SubDenomination |-> IF GetChildCount(ctx) = 2
                             THEN Str(toText(GetChild(ctx, 1))) ELSE Nil],
        <<TextEval(GetChild(ctx, 0))>>)

VisitElementaryTypeName(ctx) ==
  [Type |-> "", Name |-> toText(ctx), StateMutability |-> ""]

VisitUserDefinedTypeName(ctx) == [Type |-> "", NamePath |-> toText(ctx)]

(***************************************************************************)
(* VisitExpression                                                         *)
(***************************************************************************)
unaryOps == {"-", "+", "--", "++", "~", "after", "delete", "!"}

postFixOps == {"++", "--"}

binaryOps ==
  {"+", "-", "*", "/", "**", "%", "<<", ">>", "&&", "||", ",,", "&", ",", "^",
   "<", ">", "<=", ">=", "==", "!=", "=", ",=", "^=", "&=", "<<=", ">>=", "+=",
   "-=", "*=", "/=", "%=", "|", "|="}

contains(list, s) == s \in list

VisitExpression2PostfixFirst(ctx) ==
  LET op0 == toText(GetChild(ctx, 0))
      op1 == toText(GetChild(ctx, 1))
  IN IF op0 = "new"
     THEN LET t == Visit(RuleOf(ctx, "TypeName"))
          IN Build([Type |-> "NewExpression", TypeName |-> t], <<t>>)
     ELSE IF contains(postFixOps, op1)
     THEN LET sub == Visit(RuleAt(ctx, "Expression", 0))
          IN Build([Type |-> "UnaryOperation", Operator |-> op1,
                    SubExpression |-> sub, IsPrefix |-> FALSE], <<sub>>)
     ELSE IF contains(unaryOps, op0)
     THEN LET sub == Visit(RuleAt(ctx, "Expression", 0))
          IN Build([Type |-> "UnaryOperation", Operator |-> op0,
                    SubExpression |-> sub, IsPrefix |-> TRUE], <<sub>>)
     ELSE Panic("TODO")

VisitExpression2(ctx) ==
  LET op0 == toText(GetChild(ctx, 0))
      op1 == toText(GetChild(ctx, 1))
  IN IF op0 = "new"
     THEN LET t == Visit(RuleOf(ctx, "TypeName"))
          IN Build([Type |-> "NewExpression", TypeName |-> t], <<t>>)
     ELSE IF contains(unaryOps, op0)
     THEN LET sub == Visit(RuleAt(ctx, "Expression", 0))
          IN Build([Type |-> "UnaryOperation", Operator |-> op0,
                    SubExpression |-> sub, IsPrefix |-> TRUE], <<sub>>)
     ELSE IF contains(postFixOps, op1)
     THEN LET sub == Visit(RuleAt(ctx, "Expression", 0))
          IN Build([Type |-> "UnaryOperation", Operator |-> op1,
                    SubExpression |-> sub, IsPrefix |-> FALSE], <<sub>>)
     ELSE Panic("TODO")

VisitExpression3MemberFirst(ctx) ==
  LET op1 == toText(GetChild(ctx, 1))
  IN IF op1 = "."
     THEN LET e0 == Visit(RuleAt(ctx, "Expression", 0))
              id == RuleOf(ctx, "Identifier")
          IN Build([Type |-> "MemberAccess", Expression |-> e0,
                    MemberName |-> toText(id)], <<e0, TextEval(id)>>)
     ELSE IF toText(GetChild(ctx, 0)) = "(" /\ toText(GetChild(ctx, 2)) = ")"
     THEN LET c == Visit(GetChild(ctx, 1))
          IN Build([Type |-> "TupleExpression", IsArray |-> FALSE,
                    Components |-> Slice(<<c>>)], <<c>>)
     ELSE IF contains(binaryOps, op1)
     THEN LET l == Visit(RuleAt(ctx, "Expression", 0))
              r == Visit(RuleAt(ctx, "Expression", 1))
          IN Build([Type |-> "BinaryOperation", Operator |-> op1,
                    Left |-> l, Right |-> r], <<l, r>>)
     ELSE Panic("TODO")

VisitExpression3(ctx) ==
  LET op1 == toText(GetChild(ctx, 1))
  IN IF toText(GetChild(ctx, 0)) = "(" /\ toText(GetChild(ctx, 2)) = ")"
     THEN LET c == Visit(GetChild(ctx, 1))
          IN Build([Type |-> "TupleExpression", IsArray |-> FALSE,
                    Components |-> Slice(<<c>>)], <<c>>)
     ELSE IF op1 = "."
     THEN LET e0 == Visit(RuleAt(ctx, "Expression", 0))
              id == RuleOf(ctx, "Identifier")
          IN Build([Type |-> "MemberAccess", Expression |-> e0,
                    MemberName |-> toText(id)], <<e0, TextEval(id)>>)
     ELSE IF contains(binaryOps, op1)
     THEN LET l == Visit(RuleAt(ctx, "Expression", 0))
              r == Visit(RuleAt(ctx, "Expression", 1))
          IN Build([Type |-> "BinaryOperation", Operator |-> op1,
                    Left |-> l, Right |-> r], <<l, r>>)
     ELSE Panic("TODO")

\* The loop over AllNameValue() of a call's name/value list: per pair, in this
\* order, the visited value, the literal name and the visited identifier.
NameValueArgs(nvl) ==
  LET pairs == AllRule(nvl, "NameValue")
  IN [k \in 1..Len(pairs) |->
        LET id == RuleOf(pairs[k], "Identifier")
        IN [arg |-> Visit(RuleOf(pairs[k], "Expression")),
            name |-> toText(id),
            nameEval |-> TextEval(id),
            identifier |-> Visit(id)]]

NameValueEvals(nv) ==
  [k \in 1..(3 * Len(nv)) |->
     LET p == nv[((k - 1) \div 3) + 1]
     IN CASE (k - 1) % 3 = 0 -> p.arg
          [] (k - 1) % 3 = 1 -> p.nameEval
          [] OTHER -> p.identifier]

VisitExpression4NoRange(ctx) ==
  IF toText(GetChild(ctx, 1)) = "(" /\ toText(GetChild(ctx, 3)) = ")"
  THEN LET ctxArgs == RuleOf(ctx, "FunctionCallArguments")
       IN IF IsNil(ctxArgs) THEN Panic("interface conversion: nil")
          ELSE LET el == RuleOf(ctxArgs, "ExpressionList")
                   nvl == RuleOf(ctxArgs, "NameValueList")
                   pos == IF IsNil(el) THEN <<>> ELSE VisitAll(AllRule(el, "Expression"))
                   nv == IF IsNil(el) /\ ~IsNil(nvl) THEN NameValueArgs(nvl) ELSE <<>>
                   callee == Visit(RuleAt(ctx, "Expression", 0))
               IN Build([Type |-> "FunctionCall",
                         Expression |-> callee,
                         Names |-> NilAppend([k \in 1..Len(nv) |-> nv[k].name]),
                         Identifiers |-> NilAppend([k \in 1..Len(nv) |-> nv[k].identifier]),
                         Arguments |-> NilAppend(pos \o [k \in 1..Len(nv) |-> nv[k].arg])],
                        pos \o NameValueEvals(nv) \o <<callee>>)
  ELSE IF toText(GetChild(ctx, 1)) = "[" /\ toText(GetChild(ctx, 3)) = "]"
  THEN LET base == Visit(RuleAt(ctx, "Expression", 0))
           index == IF toText(GetChild(ctx, 2)) = ":" THEN Nil
                    ELSE Visit(RuleAt(ctx, "Expression", 1))
       IN Build([Type |-> "IndexAccess", Base |-> base, Index |-> index],
                <<base, index>>)
  ELSE IF toText(GetChild(ctx, 1)) = "{" /\ toText(GetChild(ctx, 3)) = "}"
  THEN LET e0 == Visit(RuleAt(ctx, "Expression", 0))
           args == Visit(RuleOf(ctx, "NameValueList"))
       IN Build([Type |-> "NameValueExpression", Expression |-> e0,
                 Arguments |-> args], <<e0, args>>)
  ELSE Panic("TODO")

VisitExpression4(ctx) ==
  IF toText(GetChild(ctx, 1)) = "(" /\ toText(GetChild(ctx, 3)) = ")"
  THEN LET ctxArgs == RuleOf(ctx, "FunctionCallArguments")
       IN IF IsNil(ctxArgs) THEN Panic("interface conversion: nil")
          ELSE LET el == RuleOf(ctxArgs, "ExpressionList")
                   nvl == RuleOf(ctxArgs, "NameValueList")
                   pos == IF IsNil(el) THEN <<>> ELSE VisitAll(AllRule(el, "Expression"))
                   nv == IF IsNil(el) /\ ~IsNil(nvl) THEN NameValueArgs(nvl) ELSE <<>>
                   callee == Visit(RuleAt(ctx, "Expression", 0))
               IN Build([Type |-> "FunctionCall",
                         Expression |-> callee,
                         Names |-> NilAppend([k \in 1..Len(nv) |-> nv[k].name]),
                         Identifiers |-> NilAppend([k \in 1..Len(nv) |-> nv[k].identifier]),
                         Arguments |-> NilAppend(pos \o [k \in 1..Len(nv) |-> nv[k].arg])],
                        pos \o NameValueEvals(nv) \o <<callee>>)
  ELSE IF toText(GetChild(ctx, 1)) = "[" /\ toText(GetChild(ctx, 3)) = "]"
  THEN IF toText(GetChild(ctx, 2)) = ":"
       THEN LET base == Visit(RuleAt(ctx, "Expression", 0))
            IN Build([Type |-> "IndexRangeAccess", Base |-> base,
                      IndexStart |-> Nil, IndexEnd |-> Nil], <<base>>)
       ELSE LET base == Visit(RuleAt(ctx, "Expression", 0))
                index == Visit(RuleAt(ctx, "Expression", 1))
            IN Build([Type |-> "IndexAccess", Base |-> base, Index |-> index],
                     <<base, index>>)
  ELSE IF toText(GetChild(ctx, 1)) = "{" /\ toText(GetChild(ctx, 3)) = "}"
  THEN LET e0 == Visit(RuleAt(ctx, "Expression", 0))
           args == Visit(RuleOf(ctx, "NameValueList"))
       IN Build([Type |-> "NameValueExpression", Expression |-> e0,
                 Arguments |-> args], <<e0, args>>)
  ELSE Panic("TODO")

VisitExpression5SwappedBounds(ctx) ==
  IF toText(GetChild(ctx, 1)) = "?" /\ toText(GetChild(ctx, 3)) = ":"
  THEN LET c == Visit(RuleAt(ctx, "Expression", 0))
           t == Visit(RuleAt(ctx, "Expression", 1))
           f == Visit(RuleAt(ctx, "Expression", 2))
       IN Build([Type |-> "Conditional", Condition |-> c, TrueExpression |-> t,
                 FalseExpression |-> f], <<c, t, f>>)
  ELSE IF /\ toText(GetChild(ctx, 1)) = "["
          /\ toText(GetChild(ctx, 2)) = ":"
          /\ toText(GetChild(ctx, 4)) = "]"
  THEN LET base == Visit(RuleAt(ctx, "Expression", 0))
           bound == Visit(RuleAt(ctx, "Expression", 1))
       IN Build([Type |-> "IndexRangeAccess", Base |-> base,
                 IndexStart |-> bound, IndexEnd |-> Nil], <<base, bound>>)
  ELSE IF /\ toText(GetChild(ctx, 1)) = "["
          /\ toText(GetChild(ctx, 3)) = ":"
          /\ toText(GetChild(ctx, 4)) = "]"
  THEN LET base == Visit(RuleAt(ctx, "Expression", 0))
           bound == Visit(RuleAt(ctx, "Expression", 1))
       IN Build([Type |-> "IndexRangeAccess", Base |-> base,
                 IndexStart |-> Nil, IndexEnd |-> bound], <<base, bound>>)
  ELSE Panic("TODO")

VisitExpression5(ctx) ==
  IF toText(GetChild(ctx, 1)) = "?" /\ toText(GetChild(ctx, 3)) = ":"
  THEN LET c == Visit(RuleAt(ctx, "Expression", 0))
           t == Visit(RuleAt(ctx, "Expression", 1))
           f == Visit(RuleAt(ctx, "Expression", 2))
       IN Build([Type |-> "Conditional", Condition |-> c, TrueExpression |-> t,
                 FalseExpression |-> f], <<c, t, f>>)
  ELSE IF /\ toText(GetChild(ctx, 1)) = "["
          /\ toText(GetChild(ctx, 2)) = ":"
          /\ toText(GetChild(ctx, 4)) = "]"
  THEN LET base == Visit(RuleAt(ctx, "Expression", 0))
           bound == Visit(RuleAt(ctx, "Expression", 1))
       IN Build([Type |-> "IndexRangeAccess", Base |-> base,
                 IndexStart |-> Nil, IndexEnd |-> bound], <<base, bound>>)
  ELSE IF /\ toText(GetChild(ctx, 1)) = "["
          /\ toText(GetChild(ctx, 3)) = ":"
          /\ toText(GetChild(ctx, 4)) = "]"
  THEN LET base == Visit(RuleAt(ctx, "Expression", 0))
           bound == Visit(RuleAt(ctx, "Expression", 1))
       IN Build([Type |-> "IndexRangeAccess", Base |-> base,
                 IndexStart |-> bound, IndexEnd |-> Nil], <<base, bound>>)
  ELSE Panic("TODO")

VisitExpression6(ctx) ==
  IF /\ toText(GetChild(ctx, 1)) = "["
     /\ toText(GetChild(ctx, 3)) = ":"
     /\ toText(GetChild(ctx, 5)) = "]"
  THEN LET base == Visit(RuleAt(ctx, "Expression", 0))
           start == Visit(RuleAt(ctx, "Expression", 1))
           end == Visit(RuleAt(ctx, "Expression", 2))
       IN Build([Type |-> "IndexRangeAccess", Base |-> base,
                 IndexStart |-> start, IndexEnd |-> end], <<base, start, end>>)
  ELSE Panic("TODO")

VisitExpression(ctx) ==
  LET n == Len(ctx.children)
  IN CASE n = 1 -> Visit(ctx.children[1])
       [] n = 2 -> VisitExpression2(ctx)
       [] n = 3 -> VisitExpression3(ctx)
       [] n = 4 -> VisitExpression4(ctx)
       [] n = 5 -> VisitExpression5(ctx)
       [] n = 6 -> VisitExpression6(ctx)
       [] OTHER -> Panic("TODO")

(***************************************************************************)
(* Name/value lists, tuples, primary expressions, type names               *)
(***************************************************************************)
VisitNameValueList(ctx) ==
  LET pairs == AllRule(ctx, "NameValue")
      vals == [k \in 1..Len(pairs) |->
                 LET id == RuleOf(pairs[k], "Identifier")
                 IN [name |-> toText(id), nameEval |-> TextEval(id),
                     identifier |-> Visit(id),
                     arg |-> Visit(RuleOf(pairs[k], "Expression"))]]
      evals == [k \in 1..(3 * Len(vals)) |->
                  LET p == vals[((k - 1) \div 3) + 1]
                  IN CASE (k - 1) % 3 = 0 -> p.nameEval
                       [] (k - 1) % 3 = 1 -> p.identifier
                       [] OTHER -> p.arg]
  IN Build([Type |-> "",
            Names |-> Slice([k \in 1..Len(vals) |-> vals[k].name]),
            Identifiers |-> Slice([k \in 1..Len(vals) |-> vals[k].identifier]),
            Args |-> Slice([k \in 1..Len(vals) |-> vals[k].arg])],
           evals)

VisitTupleExpression(ctx) ==
  LET count == GetChildCount(ctx)
  IN IF count < 2 THEN Panic("bad")
     ELSE LET childs == mapCommasToNulls(SubSeq(ctx.children, 2, count - 1))
          IN IF IsPanic(childs) THEN childs
             ELSE LET components ==
                        [k \in 1..Len(childs.elems) |->
                           IF IsNil(childs.elems[k]) THEN Nil
                           ELSE Visit(childs.elems[k])]
                  IN Build([Type |-> "", Components |-> Slice(components),
                            IsArray |-> toText(GetChild(ctx, 0)) = "["],
                           components)

\* One fragment of a hex literal: the text without the "hex" prefix and
\* without the double quotes at its ends.
hexPart(p) == Trim(TrimPrefix(toText(p), "hex"), "\"")

VisitHexLiteral(ctx) ==
  LET fragments == AllToken(ctx, "HexLiteralFragment")
      Parts == [k \in 1..Len(fragments) |-> hexPart(fragments[k])]
  IN [Type |-> "", Value |-> Join(Parts), Parts |-> Slice(Parts)]

\* One fragment of a string literal: whether it has the "unicode" prefix, and
\* text[1 : len(text)-1] of the text without that prefix.
stringPart(g) ==
  LET isUnicode == HasPrefix(toText(g), "unicode")
      text == IF isUnicode THEN TrimPrefix(toText(g), "unicode") ELSE toText(g)
  IN [isUnicode |-> isUnicode,
      value |-> IF Len(text) < 2 THEN Panic("slice bounds out of range")
                ELSE Str(SubSeq(text, 2, Len(text) - 1))]

VisitPrimaryExpression(ctx) ==
  IF ~IsNil(TokenOf(ctx, "BooleanLiteral"))
  THEN [Type |-> "BooleanLiteral",
        Value |-> toText(TokenOf(ctx, "BooleanLiteral")) = "true"]
  ELSE IF ~IsNil(RuleOf(ctx, "HexLiteral"))
  THEN Visit(RuleOf(ctx, "HexLiteral"))
  ELSE IF ~IsNil(RuleOf(ctx, "StringLiteral"))
  THEN LET fragments == AllToken(RuleOf(ctx, "StringLiteral"), "StringLiteralFragment")
           parts == [k \in 1..Len(fragments) |-> stringPart(fragments[k])]
           values == [k \in 1..Len(fragments) |-> parts[k].value]
       IN IF IsPanic(FirstPanic(values)) THEN FirstPanic(values)
          ELSE LET texts == [k \in 1..Len(fragments) |-> values[k].str]
               IN [Type |-> "StringLiteral", Value |-> Join(texts),
                   Parts |-> Slice(texts),
                   IsUnicode |-> Slice([k \in 1..Len(fragments) |->
                                          parts[k].isUnicode])]
  ELSE IF ~IsNil(RuleOf(ctx, "NumberLiteral"))
  THEN Visit(RuleOf(ctx, "NumberLiteral"))
  ELSE IF ~IsNil(TokenOf(ctx, "TypeKeyword"))
  THEN [Type |-> "Identifier", Name |-> "type"]
  ELSE IF /\ Len(ctx.children) = 3
          /\ toText(GetChild(ctx, 0)) = "["
          /\ toText(GetChild(ctx, 2)) = "]"
  THEN Panic("TODO")
  ELSE Visit(GetChild(ctx, 0))

VisitMapping(ctx) ==
  LET keyType == Visit(RuleOf(ctx, "MappingKey"))
      valueType == Visit(RuleOf(ctx, "TypeName"))
  IN Build([Type |-> "", KeyType |-> keyType, ValueType |-> valueType],
           <<keyType, valueType>>)

VisitMappingKey(ctx) ==
  IF ~IsNil(RuleOf(ctx, "ElementaryTypeName"))
  THEN Visit(RuleOf(ctx, "ElementaryTypeName"))
  ELSE IF ~IsNil(RuleOf(ctx, "UserDefinedTypeName"))
  THEN Visit(RuleOf(ctx, "UserDefinedTypeName"))
  ELSE Panic("BUG")

\* VisitTypeName that never reads the length of an array type.
VisitTypeNameNoLength(ctx) ==
  IF GetChildCount(ctx) > 2
  THEN LET base == Visit(RuleOf(ctx, "TypeName"))
       IN Build([Type |-> "ArrayTypeName", BaseTypeName |-> base, Length |-> Nil],
                <<base>>)
  ELSE IF GetChildCount(ctx) = 2
  THEN [Type |-> "ElementaryTypeName", Name |-> toText(GetChild(ctx, 0)),
        StateMutability |-> toText(GetChild(ctx, 1))]
  ELSE IF GetChildCount(ctx) = 1 THEN Visit(GetChild(ctx, 0))
  ELSE Panic("TODO")

VisitTypeName(ctx) ==
  IF GetChildCount(ctx) > 2
  THEN LET four == GetChildCount(ctx) = 4
           expr == RuleOf(ctx, "Expression")
       IN IF four /\ IsNil(expr) THEN Panic("BAD")
          ELSE LET length == IF four THEN Visit(expr) ELSE Nil
                   base == Visit(RuleOf(ctx, "TypeName"))
               IN Build([Type |-> "ArrayTypeName", BaseTypeName |-> base,
                         Length |-> length], <<length, base>>)
  ELSE IF GetChildCount(ctx) = 2
  THEN [Type |-> "ElementaryTypeName", Name |-> toText(GetChild(ctx, 0)),
        StateMutability |-> toText(GetChild(ctx, 1))]
  ELSE IF ~IsNil(RuleOf(ctx, "ElementaryTypeName"))
  THEN Visit(RuleOf(ctx, "ElementaryTypeName"))
  ELSE IF ~IsNil(RuleOf(ctx, "UserDefinedTypeName"))
  THEN Visit(RuleOf(ctx, "UserDefinedTypeName"))
  ELSE IF ~IsNil(RuleOf(ctx, "Mapping"))
  THEN Visit(RuleOf(ctx, "Mapping"))
  ELSE IF ~IsNil(RuleOf(ctx, "FunctionTypeName"))
  THEN Visit(RuleOf(ctx, "FunctionTypeName"))
  ELSE Panic("TODO")

(***************************************************************************)
(* Statements, parameters, calls, try/catch                                *)
(***************************************************************************)
VisitVariableDeclaration(ctx) ==
  LET iden == RuleOf(ctx, "Identifier")
      identifier == Visit(iden)
      typeName == Visit(RuleOf(ctx, "TypeName"))
      loc == RuleOf(ctx, "StorageLocation")
  IN Build([Type |-> "", Name |-> toText(iden), TypeName |-> typeName,
            Identifier |-> identifier, IsIndexed |-> FALSE, IsStateVar |-> FALSE,
            IsDeclaredConst |-> FALSE, StorageLocation |-> toText(loc),
            Expression |-> Nil, Visibility |-> "", Override |-> Nil],
           <<TextEval(iden), identifier, typeName>>)

\* indx when the loop reaches slot k: the number of present slots up to k.
presentUpTo(childs, k) == Cardinality({j \in 1..k : ~IsNil(childs[j])})

\* buildIdentifierList that appends nothing for an absent slot.
buildIdentifierListDense(ctx) ==
  LET identifiers == AllRule(ctx, "Identifier")
      variables == [k \in 1..Len(identifiers) |->
                      Build([Type |-> "VariableDeclaration",
                             Name |-> toText(identifiers[k]), TypeName |-> Nil,
                             Identifier |-> Visit(identifiers[k]),
                             IsIndexed |-> FALSE, IsStateVar |-> FALSE,
                             IsDeclaredConst |-> FALSE, StorageLocation |-> "",
                             Expression |-> Nil, Visibility |-> "",
                             Override |-> Nil],
                            <<Visit(identifiers[k])>>)]
  IN Build(Slice(variables), variables)

buildIdentifierList(ctx) ==
  LET count == GetChildCount(ctx)
      identifiers == AllRule(ctx, "Identifier")
      variable(childs, k) ==
        IF IsNil(childs.elems[k]) THEN Nil
        ELSE IF presentUpTo(childs.elems, k) > Len(identifiers)
        THEN Panic("index out of range")
        ELSE With(identifiers[presentUpTo(childs.elems, k)],
                  LAMBDA iden :
                    Build([Type |-> "VariableDeclaration", Name |-> toText(iden),
                           TypeName |-> Nil, Identifier |-> Visit(iden),
                           IsIndexed |-> FALSE, IsStateVar |-> FALSE,
                           IsDeclaredConst |-> FALSE, StorageLocation |-> "",
                           Expression |-> Nil, Visibility |-> "",
                           Override |-> Nil],
                          <<Visit(iden)>>))
      build(childs) ==
        IF IsPanic(childs) THEN childs
        ELSE With([k \in 1..Len(childs.elems) |-> variable(childs, k)],
                  LAMBDA variables : Build(Slice(variables), variables))
  IN IF count < 2 THEN Panic("bad")
     ELSE With(mapCommasToNulls(SubSeq(ctx.children, 2, count - 1)), build)

buildVariableDeclarationList(ctx) ==
  LET variableDeclarations == AllRule(ctx, "VariableDeclaration")
      declared(decl) ==
        LET iden == RuleOf(decl, "Identifier")
            identifier == Visit(iden)
            typeName == Visit(RuleOf(decl, "TypeName"))
        IN Build([Type |-> "VariableDeclaration", Name |-> toText(iden),
                  TypeName |-> typeName, Identifier |-> identifier,
                  IsIndexed |-> FALSE, IsStateVar |-> FALSE,
                  IsDeclaredConst |-> FALSE,
                  StorageLocation |-> toText(RuleOf(decl, "StorageLocation")),
                  Expression |-> Nil, Visibility |-> "", Override |-> Nil],
                 <<TextEval(iden), identifier, typeName>>)
      variable(childs, k) ==
        IF IsNil(childs.elems[k]) THEN Nil
        ELSE IF presentUpTo(childs.elems, k) > Len(variableDeclarations)
        THEN Panic("index out of range")
        ELSE With(variableDeclarations[presentUpTo(childs.elems, k)], declared)
      build(childs) ==
        IF IsPanic(childs) THEN childs
        ELSE With([k \in 1..Len(childs.elems) |-> variable(childs, k)],
                  LAMBDA variables : Build(Slice(variables), variables))
  IN With(mapCommasToNulls(ctx.children), build)

VisitVariableDeclarationStatement(ctx) ==
  LET single == RuleOf(ctx, "VariableDeclaration")
      idList == RuleOf(ctx, "IdentifierList")
      declList == RuleOf(ctx, "VariableDeclarationList")
      expr == RuleOf(ctx, "Expression")
      initialValue == IF IsNil(expr) THEN Nil ELSE Visit(expr)
      build(variables) ==
        IF IsPanic(variables) THEN variables
        ELSE Build([Type |-> "", InitialValue |-> initialValue,
                    Variables |-> variables],
                   (IF IsNil(variables) THEN <<>> ELSE variables.elems)
                     \o <<initialValue>>)
  IN With(IF ~IsNil(single) THEN Slice(<<Visit(single)>>)
          ELSE IF ~IsNil(idList) THEN buildIdentifierList(idList)
          ELSE IF ~IsNil(declList) THEN buildVariableDeclarationList(declList)
          ELSE Nil,
          build)

\* One parameter of an event: a VariableDeclaration built inline.
eventParameter(param) ==
  LET iden == RuleOf(param, "Identifier")
      identifier == IF IsNil(iden) THEN Nil ELSE Visit(iden)
      typeName == Visit(RuleOf(param, "TypeName"))
  IN Build([Type |-> "VariableDeclaration", Name |-> toText(iden),
            TypeName |-> typeName, Identifier |-> identifier,
            IsIndexed |-> ~IsNil(TokenOf(param, "IndexedKeyword")),
            IsStateVar |-> FALSE, IsDeclaredConst |-> FALSE,
            StorageLocation |-> "", Expression |-> Nil, Visibility |-> "",
            Override |-> Nil],
           <<identifier, typeName>>)

VisitEventDefinition(ctx) ==
  LET iden == RuleOf(ctx, "Identifier")
      list == RuleOf(ctx, "EventParameterList")
  IN IF IsNil(iden) THEN TextEval(iden)
     ELSE IF IsNil(list) THEN Panic("interface conversion: nil")
     ELSE LET paramsList == AllRule(list, "EventParameter")
              parameters == [k \in 1..Len(paramsList) |-> eventParameter(paramsList[k])]
          IN Build([Type |-> "", Name |-> toText(iden),
                    Parameters |-> Slice(parameters)],
                   parameters)

VisitParameter(ctx) ==
  LET t == Visit(RuleOf(ctx, "TypeName"))
      loc == RuleOf(ctx, "StorageLocation")
      iden == RuleOf(ctx, "Identifier")
      id == IF IsNil(iden) THEN Nil ELSE Visit(iden)
  IN Build([Type |-> "VariableDeclaration", Name |-> toText(iden),
            TypeName |-> t, Identifier |-> id, IsIndexed |-> FALSE,
            IsStateVar |-> FALSE, IsDeclaredConst |-> FALSE,
            StorageLocation |-> toText(loc), Expression |-> Nil,
            Visibility |-> "", Override |-> Nil],
           <<t, id>>)

VisitParameterList(ctx) ==
  LET parameters == VisitAll(AllRule(ctx, "Parameter"))
  IN Build(NilAppend(parameters), parameters)

VisitReturnParameters(ctx) ==
  LET pl == RuleOf(ctx, "ParameterList")
  IN IF IsNil(pl) THEN Panic("interface conversion: nil")
     ELSE VisitParameterList(pl)

VisitBlock(ctx) ==
  LET statements == VisitAll(AllRule(ctx, "Statement"))
  IN Build([Type |-> "", Statements |-> Slice(statements)], statements)

VisitStatement(ctx) == Visit(GetChild(ctx, 0))

VisitSimpleStatement(ctx) == Visit(GetChild(ctx, 0))

VisitExpressionStatement(ctx) ==
  LET e0 == Visit(RuleOf(ctx, "Expression"))
  IN Build([Type |-> "", Expression |-> e0], <<e0>>)

(***************************************************************************)
(* Declarations: state variables, functions, modifiers, function types     *)
(***************************************************************************)
hasElem(a) == Len(a) > 0

VisitStateVariableDeclaration(ctx) ==
  LET visibility ==
        IF hasElem(AllToken(ctx, "InternalKeyword")) THEN "internal"
        ELSE IF hasElem(AllToken(ctx, "PublicKeyword")) THEN "public"
        ELSE IF hasElem(AllToken(ctx, "PrivateKeyword")) THEN "private"
        ELSE "default"
      overSpec == AllRule(ctx, "OverrideSpecifier")
      override == IF Len(overSpec) # 0
                  THEN VisitAll(AllRule(overSpec[1], "UserDefinedTypeName"))
                  ELSE <<>>
      iden == RuleOf(ctx, "Identifier")
      typeName == Visit(RuleOf(ctx, "TypeName"))
      identifier == Visit(iden)
      ex == RuleOf(ctx, "Expression")
      expression == IF IsNil(ex) THEN Nil ELSE Visit(ex)
      vv == [Type |-> "VariableDeclaration", Name |-> toText(iden),
             TypeName |-> typeName, Identifier |-> identifier,
             IsIndexed |-> FALSE, IsStateVar |-> TRUE,
             IsDeclaredConst |-> hasElem(AllToken(ctx, "ConstantKeyword")),
             StorageLocation |-> "", Expression |-> expression,
             Visibility |-> visibility, Override |-> NilAppend(override),
             IsInmutable |-> hasElem(AllToken(ctx, "ImmutableKeyword"))]
  IN Build([Type |-> "", Variables |-> Slice(<<vv>>), InitialValue |-> Nil],
           override \o <<TextEval(iden), typeName, identifier, expression>>)

\* functionKind that takes every "function" for a fallback and reads the
\* visibility keywords of every descriptor.
functionKindEveryFunctionFallback(descriptor, modList) ==
  LET text == toText(GetChild(descriptor, 0))
      ident == RuleOf(descriptor, "Identifier")
      name == IF text = "function" /\ ~IsNil(ident) THEN toText(ident) ELSE ""
  IN [name |-> name,
      visibility |->
        IF hasElem(AllToken(modList, "ExternalKeyword")) THEN "external"
        ELSE IF hasElem(AllToken(modList, "InternalKeyword")) THEN "internal"
        ELSE IF hasElem(AllToken(modList, "PublicKeyword")) THEN "public"
        ELSE IF hasElem(AllToken(modList, "PrivateKeyword")) THEN "private"
        ELSE "default",
      isConstructor |-> text = "constructor",
      isFallback |-> text \in {"fallback", "function"},
      isReceiveEther |-> text = "receive"]

functionKindKeepsKeywords(descriptor, modList) ==
  LET text == toText(GetChild(descriptor, 0))
      ident == RuleOf(descriptor, "Identifier")
      name == IF text = "function" /\ ~IsNil(ident) THEN toText(ident) ELSE ""
      keyword == IF hasElem(AllToken(modList, "ExternalKeyword")) THEN "external"
                 ELSE IF hasElem(AllToken(modList, "InternalKeyword")) THEN "internal"
                 ELSE IF hasElem(AllToken(modList, "PublicKeyword")) THEN "public"
                 ELSE IF hasElem(AllToken(modList, "PrivateKeyword")) THEN "private"
                 ELSE "default"
  IN [name |-> name,
      visibility |-> IF text \in {"constructor", "fallback", "receive", "function"}
                     THEN keyword ELSE "default",
      isConstructor |-> text = "constructor",
      isFallback |-> text = "fallback" \/ (text = "function" /\ name = ""),
      isReceiveEther |-> text = "receive"]

\* The switch on the text of the function descriptor's first child.
functionKind(descriptor, modList) ==
  LET text == toText(GetChild(descriptor, 0))
      ident == RuleOf(descriptor, "Identifier")
      name == IF text = "function" /\ ~IsNil(ident) THEN toText(ident) ELSE ""
  IN [name |-> name,
      visibility |->
        CASE text = "constructor" ->
               IF hasElem(AllToken(modList, "InternalKeyword")) THEN "internal"
               ELSE IF hasElem(AllToken(modList, "PublicKeyword")) THEN "public"
               ELSE "default"
          [] text \in {"fallback", "receive"} -> "external"
          [] text = "function" ->
               IF hasElem(AllToken(modList, "ExternalKeyword")) THEN "external"
               ELSE IF hasElem(AllToken(modList, "InternalKeyword")) THEN "internal"
               ELSE IF hasElem(AllToken(modList, "PublicKeyword")) THEN "public"
               ELSE IF hasElem(AllToken(modList, "PrivateKeyword")) THEN "private"
               ELSE "default"
          [] OTHER -> "default",
      isConstructor |-> text = "constructor",
      isFallback |-> text = "fallback" \/ (text = "function" /\ name = ""),
      isReceiveEther |-> text = "receive"]

\* VisitFunctionDefinition that reads the returns clause and the mutability
\* keyword of every kind of function.
VisitFunctionDefinitionReadsAll(ctx) ==
  LET blk == RuleOf(ctx, "Block")
      block == IF IsNil(blk) THEN Nil ELSE Visit(blk)
      modList == RuleOf(ctx, "ModifierList")
      pl == RuleOf(ctx, "ParameterList")
      descriptor == RuleOf(ctx, "FunctionDescriptor")
  IN IF IsPanic(block) THEN block
     ELSE IF IsNil(modList) \/ IsNil(pl) \/ IsNil(descriptor)
     THEN Panic("interface conversion: nil")
     ELSE LET modifiers == VisitAll(AllRule(modList, "ModifierInvocation"))
              parameters == VisitAll(AllRule(pl, "Parameter"))
              kind == functionKind(descriptor, modList)
              ctxRet == RuleOf(ctx, "ReturnParameters")
              returnParameters ==
                IF ~IsNil(ctxRet) THEN VisitReturnParameters(ctxRet) ELSE Nil
              overrideSpec == AllRule(modList, "OverrideSpecifier")
              override == IF Len(overrideSpec) # 0
                          THEN VisitAll(AllRule(overrideSpec[1], "UserDefinedTypeName"))
                          ELSE <<>>
          IN Build([Type |-> "", Name |-> kind.name, Body |-> block,
                    Parameters |-> NilAppend(parameters),
                    ReturnParameters |-> returnParameters,
                    StateMutability |-> toText(RuleOf(modList, "StateMutability")),
                    IsConstructor |-> kind.isConstructor,
                    IsFallback |-> kind.isFallback,
                    IsVirtual |-> hasElem(AllToken(modList, "VirtualKeyword")),
                    IsReceiveEther |-> kind.isReceiveEther,
                    Visibility |-> kind.visibility,
                    Modifiers |-> Slice(modifiers),
                    Override |-> NilAppend(override)],
                   modifiers \o parameters \o <<returnParameters>> \o override)

\* StateMutability is never assigned and keeps its zero value.
VisitFunctionDefinition(ctx) ==
  LET blk == RuleOf(ctx, "Block")
      block == IF IsNil(blk) THEN Nil ELSE Visit(blk)
      modList == RuleOf(ctx, "ModifierList")
      pl == RuleOf(ctx, "ParameterList")
      descriptor == RuleOf(ctx, "FunctionDescriptor")
  IN IF IsPanic(block) THEN block
     ELSE IF IsNil(modList) \/ IsNil(pl) \/ IsNil(descriptor)
     THEN Panic("interface conversion: nil")
     ELSE LET modifiers == VisitAll(AllRule(modList, "ModifierInvocation"))
              parameters == VisitAll(AllRule(pl, "Parameter"))
              kind == functionKind(descriptor, modList)
              ctxRet == RuleOf(ctx, "ReturnParameters")
              returnParameters ==
                IF toText(GetChild(descriptor, 0)) = "function" /\ ~IsNil(ctxRet)
                THEN VisitReturnParameters(ctxRet) ELSE Nil
              overrideSpec == AllRule(modList, "OverrideSpecifier")
              override == IF Len(overrideSpec) # 0
                          THEN VisitAll(AllRule(overrideSpec[1], "UserDefinedTypeName"))
                          ELSE <<>>
          IN Build([Type |-> "", Name |-> kind.name, Body |-> block,
                    Parameters |-> NilAppend(parameters),
                    ReturnParameters |-> returnParameters,
                    StateMutability |-> "",
                    IsConstructor |-> kind.isConstructor,
                    IsFallback |-> kind.isFallback,
                    IsVirtual |-> hasElem(AllToken(modList, "VirtualKeyword")),
                    IsReceiveEther |-> kind.isReceiveEther,
                    Visibility |-> kind.visibility,
                    Modifiers |-> Slice(modifiers),
                    Override |-> NilAppend(override)],
                   modifiers \o parameters \o <<returnParameters>> \o override)

\* The commented-out parameter list leaves Parameters at its zero value.
VisitModifierDefinition(ctx) ==
  LET iden == RuleOf(ctx, "Identifier")
      spec == AllRule(ctx, "OverrideSpecifier")
      override == IF Len(spec) > 0
                  THEN VisitAll(AllRule(spec[1], "UserDefinedTypeName"))
                  ELSE <<>>
      blk == RuleOf(ctx, "Block")
      body == IF IsNil(blk) THEN Nil ELSE Visit(blk)
  IN Build([Type |-> "", Name |-> toText(iden), Parameters |-> Nil,
            Body |-> body,
            IsVirtual |-> Len(AllToken(ctx, "VirtualKeyword")) > 0,
            Override |-> Slice(override)],
           <<TextEval(iden)>> \o override \o <<body>>)

VisitOverrideSpecifier(ctx) == [Type |-> ""]

VisitFunctionTypeNameExternalFirst(ctx) ==
  LET paramList == AllRule(ctx, "FunctionTypeParameterList")
  IN IF Len(paramList) = 0 THEN Panic("index out of range")
     ELSE LET parameterTypes ==
                VisitAll(AllRule(paramList[1], "FunctionTypeParameter"))
              returnTypes ==
                IF Len(paramList) > 1
                THEN VisitAll(AllRule(paramList[2], "FunctionTypeParameter"))
                ELSE <<>>
              visibility ==
                IF hasElem(AllToken(ctx, "ExternalKeyword")) THEN "external"
                ELSE IF hasElem(AllToken(ctx, "InternalKeyword")) THEN "internal"
                ELSE "default"
              mut == AllRule(ctx, "StateMutability")
          IN Build([Type |-> "", ParameterTypes |-> Slice(parameterTypes),
                    ReturnTypes |-> Slice(returnTypes),
                    Visibility |-> visibility,
                    StateMutability |-> IF Len(mut) > 0 THEN toText(mut[1]) ELSE ""],
                   parameterTypes \o returnTypes)

VisitFunctionTypeName(ctx) ==
  LET paramList == AllRule(ctx, "FunctionTypeParameterList")
  IN IF Len(paramList) = 0 THEN Panic("index out of range")
     ELSE LET parameterTypes ==
                VisitAll(AllRule(paramList[1], "FunctionTypeParameter"))
              returnTypes ==
                IF Len(paramList) > 1
                THEN VisitAll(AllRule(paramList[2], "FunctionTypeParameter"))
                ELSE <<>>
              visibility ==
                IF hasElem(AllToken(ctx, "InternalKeyword")) THEN "internal"
                ELSE IF hasElem(AllToken(ctx, "ExternalKeyword")) THEN "external"
                ELSE "default"
              mut == AllRule(ctx, "StateMutability")
          IN Build([Type |-> "", ParameterTypes |-> Slice(parameterTypes),
                    ReturnTypes |-> Slice(returnTypes),
                    Visibility |-> visibility,
                    StateMutability |-> IF Len(mut) > 0 THEN toText(mut[1]) ELSE ""],
                   parameterTypes \o returnTypes)

VisitFunctionTypeParameter(ctx) ==
  LET t == Visit(RuleOf(ctx, "TypeName"))
  IN Build([Type |-> "VariableDeclaration", Name |-> "", TypeName |-> t,
            Identifier |-> Nil, IsIndexed |-> FALSE, IsStateVar |-> FALSE,
            IsDeclaredConst |-> FALSE,
            StorageLocation |-> toText(RuleOf(ctx, "StorageLocation")),
            Expression |-> Nil, Visibility |-> "", Override |-> Nil],
           <<t>>)

(***************************************************************************)
(* Import directives                                                       *)
(***************************************************************************)
\* strings.Trim(pathString, "\""): the text of an import path without the
\* double quotes at its ends; other characters at its ends stay.
TrimQuotes(s) == Trim(s, "\"")

importSymbolAliasFirst(decl) ==
  LET first == RuleAt(decl, "Identifier", 0)
      second == RuleAt(decl, "Identifier", 1)
      symbolIdentifier == Visit(first)
      hasAlias == Len(AllRule(decl, "Identifier")) > 1
      aliasIdentifier == IF hasAlias THEN Visit(second) ELSE Nil
  IN [names |-> Slice(<<IF hasAlias THEN toText(second) ELSE "", toText(first)>>),
      identifiers |-> Slice(<<aliasIdentifier, symbolIdentifier>>),
      evals |-> <<TextEval(first), symbolIdentifier, aliasIdentifier>>]

\* One import declaration: the pair (symbol, alias) and the pair of their
\* Identifier nodes; alias "" and nil without a second identifier.
importSymbol(decl) ==
  LET first == RuleAt(decl, "Identifier", 0)
      second == RuleAt(decl, "Identifier", 1)
      symbolIdentifier == Visit(first)
      hasAlias == Len(AllRule(decl, "Identifier")) > 1
      aliasIdentifier == IF hasAlias THEN Visit(second) ELSE Nil
  IN [names |-> Slice(<<toText(first), IF hasAlias THEN toText(second) ELSE "">>),
      identifiers |-> Slice(<<symbolIdentifier, aliasIdentifier>>),
      evals |-> <<TextEval(first), symbolIdentifier, aliasIdentifier>>]

RECURSIVE Flatten(_)
Flatten(ss) == IF Len(ss) = 0 THEN <<>> ELSE Head(ss) \o Flatten(Tail(ss))

VisitImportDirective(ctx) ==
  LET importPath == RuleOf(ctx, "ImportPath")
      path == TrimQuotes(toText(importPath))
      importDecl == AllRule(ctx, "ImportDeclaration")
      symbols == [k \in 1..Len(importDecl) |-> importSymbol(importDecl[k])]
      idenList == AllRule(ctx, "Identifier")
      iden == CASE Len(importDecl) > 0 -> Nil
                [] Len(idenList) = 0 -> Nil
                [] Len(idenList) = 1 -> idenList[1]
                [] Len(idenList) = 2 -> idenList[2]
                [] OTHER -> Panic("BAD")
      unitAliasIdentifier == IF IsNil(iden) \/ IsPanic(iden) THEN iden ELSE Visit(iden)
  IN Build([Type |-> "", Path |-> path,
            PathLiteral |-> [Type |-> "StringLiteral", Value |-> path,
                             Parts |-> Slice(<<path>>),
                             IsUnicode |-> Slice(<<FALSE>>)],
            UnitAlias |-> IF IsNil(iden) \/ IsPanic(iden) THEN "" ELSE toText(iden),
            UnitAliasIdentifier |-> unitAliasIdentifier,
            SymbolAliases |->
              NilAppend([k \in 1..Len(symbols) |-> symbols[k].names]),
            SymbolAliasesIdentifiers |->
              NilAppend([k \in 1..Len(symbols) |-> symbols[k].identifiers])],
           <<TextEval(importPath)>>
           \o Flatten([k \in 1..Len(symbols) |-> symbols[k].evals])
           \o <<unitAliasIdentifier>>)

(***************************************************************************)
(* Source units, contracts, inheritance                                    *)
(***************************************************************************)
\* VisitSourceUnit that keeps only the children that gave a node.
VisitSourceUnitDeclarationsOnly(ctx) ==
  LET children == VisitAll(ctx.children)
  IN Build([Type |-> "", Children |-> Slice(SelectSeq(children, LAMBDA v : ~IsNil(v)))],
           children)

\* Every child is visited, the <EOF> token included.
VisitSourceUnit(ctx) ==
  LET children == VisitAll(ctx.children)
  IN Build([Type |-> "", Children |-> Slice(children)], children)

VisitContractPart(ctx) == Visit(GetChild(ctx, 0))

\* An argument list is handed to Visit as an ExpressionList.
VisitInheritanceSpecifier(ctx) ==
  LET baseName == Visit(RuleOf(ctx, "UserDefinedTypeName"))
      expr == RuleOf(ctx, "ExpressionList")
      arguments == IF IsNil(expr) THEN <<>> ELSE <<Visit(expr)>>
  IN Build([Type |-> "", BaseName |-> baseName, Arguments |-> Slice(arguments)],
           <<baseName>> \o arguments)

VisitContractDefinition(ctx) ==
  LET iden == RuleOf(ctx, "Identifier")
      subNodes == VisitAll(AllRule(ctx, "ContractPart"))
      baseContracts == VisitAll(AllRule(ctx, "InheritanceSpecifier"))
  IN Build([Type |-> "", Name |-> toText(iden), Kind |-> toText(GetChild(ctx, 0)),
            SubNodes |-> Slice(subNodes), BaseContracts |-> Slice(baseContracts)],
           <<TextEval(iden), TextEval(GetChild(ctx, 0))>> \o subNodes \o baseContracts)

(***************************************************************************)
(* Inline assembly: the structs of these builders do not embed Node, so    *)
(* their values do not satisfy INode.                                      *)
(***************************************************************************)
VisitInlineAssemblyStatement(ctx) ==
  LET body == Visit(RuleOf(ctx, "AssemblyBlock"))
  IN Build([struct |-> "InlineAssemblyStatement", Body |-> body], <<body>>)

VisitAssemblyBlock(ctx) ==
  LET operations == VisitAll(AllRule(ctx, "AssemblyItem"))
  IN Build([struct |-> "AssemblyBlock", Operations |-> Slice(operations)], operations)

VisitAssemblyItem(ctx) == Visit(GetChild(ctx, 0))

VisitAssemblyExpression(ctx) == Visit(GetChild(ctx, 0))

VisitAssemblyCall(ctx) ==
  LET arguments == VisitAll(AllRule(ctx, "AssemblyExpression"))
  IN Build([struct |-> "AssemblyCall", Arguments |-> Slice(arguments)], arguments)

VisitAssemblyLiteral(ctx) == [struct |-> "AssemblyLiteral"]

VisitForStatementBareLoop(ctx) ==
  LET es == RuleOf(ctx, "ExpressionStatement")
      cond == IF IsNil(es) THEN Nil ELSE Visit(es)
      conditionExpr == IF IsNode(cond) THEN cond.Expression ELSE Nil
      body == Visit(RuleOf(ctx, "Statement"))
      ss == RuleOf(ctx, "SimpleStatement")
      init == IF IsNil(ss) THEN Nil ELSE Visit(ss)
      ex == RuleOf(ctx, "Expression")
      loop == IF IsNil(ex) THEN Nil ELSE Visit(ex)
  IN Build([Type |-> "", InitExpression |-> init,
            ConditionExpression |-> conditionExpr,
            LoopExpression |-> IF IsNil(ex) THEN Nil
                               ELSE [Type |-> "ExpressionStatement",
                                     Expression |-> loop],
            Body |-> body],
           <<cond, body, init, loop>>)

\* The condition is visited first, then the body, the init clause and the
\* loop clause; the loop clause is wrapped in a fresh ExpressionStatement.
VisitForStatement(ctx) ==
  LET es == RuleOf(ctx, "ExpressionStatement")
      cond == IF IsNil(es) THEN Nil ELSE Visit(es)
      conditionExpr == IF IsNode(cond) THEN cond.Expression ELSE Nil
      body == Visit(RuleOf(ctx, "Statement"))
      ss == RuleOf(ctx, "SimpleStatement")
      init == IF IsNil(ss) THEN Nil ELSE Visit(ss)
      ex == RuleOf(ctx, "Expression")
      loop == IF IsNil(ex) THEN Nil ELSE Visit(ex)
  IN Build([Type |-> "", InitExpression |-> init,
            ConditionExpression |-> conditionExpr,
            LoopExpression |-> [Type |-> "ExpressionStatement", Expression |-> loop],
            Body |-> body],
           <<cond, body, init, loop>>)

\* VisitFunctionCall that starts from nil lists, as the expression rule does.
VisitFunctionCallNilLists(ctx) ==
  LET callee == Visit(RuleOf(ctx, "Expression"))
      ctxArgs == RuleOf(ctx, "FunctionCallArguments")
  IN IF IsPanic(callee) THEN callee
     ELSE IF IsNil(ctxArgs) THEN Panic("interface conversion: nil")
     ELSE LET el == RuleOf(ctxArgs, "ExpressionList")
              nvl == RuleOf(ctxArgs, "NameValueList")
              pos == IF IsNil(el) THEN <<>> ELSE VisitAll(AllRule(el, "Expression"))
              nv == IF IsNil(el) /\ ~IsNil(nvl) THEN NameValueArgs(nvl) ELSE <<>>
          IN Build([Type |-> "",
                    Expression |-> callee,
                    Arguments |-> NilAppend(pos \o [k \in 1..Len(nv) |-> nv[k].arg]),
                    Identifiers |-> NilAppend([k \in 1..Len(nv) |-> nv[k].identifier]),
                    Names |-> NilAppend([k \in 1..Len(nv) |-> nv[k].name])],
                   pos \o NameValueEvals(nv))

VisitFunctionCallBothLists(ctx) ==
  LET callee == Visit(RuleOf(ctx, "Expression"))
      ctxArgs == RuleOf(ctx, "FunctionCallArguments")
  IN IF IsPanic(callee) THEN callee
     ELSE IF IsNil(ctxArgs) THEN Panic("interface conversion: nil")
     ELSE LET el == RuleOf(ctxArgs, "ExpressionList")
              nvl == RuleOf(ctxArgs, "NameValueList")
              pos == IF IsNil(el) THEN <<>> ELSE VisitAll(AllRule(el, "Expression"))
              nv == IF ~IsNil(nvl) THEN NameValueArgs(nvl) ELSE <<>>
          IN Build([Type |-> "",
                    Expression |-> callee,
                    Arguments |-> Slice(pos \o [k \in 1..Len(nv) |-> nv[k].arg]),
                    Identifiers |-> Slice([k \in 1..Len(nv) |-> nv[k].identifier]),
                    Names |-> Slice([k \in 1..Len(nv) |-> nv[k].name])],
                   pos \o NameValueEvals(nv))

VisitFunctionCall(ctx) ==
  LET callee == Visit(RuleOf(ctx, "Expression"))
      ctxArgs == RuleOf(ctx, "FunctionCallArguments")
  IN IF IsPanic(callee) THEN callee
     ELSE IF IsNil(ctxArgs) THEN Panic("interface conversion: nil")
     ELSE LET el == RuleOf(ctxArgs, "ExpressionList")
              nvl == RuleOf(ctxArgs, "NameValueList")
              pos == IF IsNil(el) THEN <<>> ELSE VisitAll(AllRule(el, "Expression"))
              nv == IF IsNil(el) /\ ~IsNil(nvl) THEN NameValueArgs(nvl) ELSE <<>>
          IN Build([Type |-> "",
                    Expression |-> callee,
                    Arguments |-> Slice(pos \o [k \in 1..Len(nv) |-> nv[k].arg]),
                    Identifiers |-> Slice([k \in 1..Len(nv) |-> nv[k].identifier]),
                    Names |-> Slice([k \in 1..Len(nv) |-> nv[k].name])],
                   pos \o NameValueEvals(nv))

VisitCatchClauseAnyKind(ctx) ==
  LET iden == RuleOf(ctx, "Identifier")
      kind == toText(iden)
      body == Visit(RuleOf(ctx, "Block"))
      param == RuleOf(ctx, "ParameterList")
      parameters == IF IsNil(param) THEN Nil ELSE VisitParameterList(param)
  IN Build([Type |-> "", IsReasonType |-> kind = "Error", Kind |-> kind,
            Parameters |-> parameters, Body |-> body],
           <<body, parameters>>)

VisitCatchClause(ctx) ==
  LET iden == RuleOf(ctx, "Identifier")
      kind == toText(iden)
  IN IF ~IsNil(iden) /\ kind # "Error" /\ kind # "Panic"
     THEN Panic("Expected 'Error' or 'Panic'")
     ELSE LET body == Visit(RuleOf(ctx, "Block"))
              param == RuleOf(ctx, "ParameterList")
              parameters == IF IsNil(param) THEN Nil ELSE VisitParameterList(param)
          IN Build([Type |-> "", IsReasonType |-> kind = "Error", Kind |-> kind,
                    Parameters |-> parameters, Body |-> body],
                   <<body, parameters>>)

VisitTryStatement(ctx) ==
  LET catchClause == VisitAll(AllRule(ctx, "CatchClause"))
      e0 == Visit(RuleOf(ctx, "Expression"))
      body == Visit(RuleOf(ctx, "Block"))
      ret == RuleOf(ctx, "ReturnParameters")
      returnParameters == IF IsNil(ret) THEN Nil ELSE VisitReturnParameters(ret)
  IN Build([Type |-> "", Expression |-> e0, CatchClause |-> Slice(catchClause),
            Body |-> body, ReturnParameters |-> returnParameters],
           catchClause \o <<e0, body, returnParameters>>)

(***************************************************************************)
(* The builder that funcMap holds for a production                         *)
(***************************************************************************)
Builder(ctx) ==
  CASE ctx.kind = "Expression" -> VisitExpression(ctx)
    [] ctx.kind = "PrimaryExpression" -> VisitPrimaryExpression(ctx)
    [] ctx.kind = "Identifier" -> VisitIdentifier(ctx)
    [] ctx.kind = "NumberLiteral" -> VisitNumberLiteral(ctx)
    [] ctx.kind = "HexLiteral" -> VisitHexLiteral(ctx)
    [] ctx.kind = "EventDefinition" -> VisitEventDefinition(ctx)
    [] ctx.kind = "VariableDeclaration" -> VisitVariableDeclaration(ctx)
    [] ctx.kind = "VariableDeclarationStatement" ->
         VisitVariableDeclarationStatement(ctx)
    [] ctx.kind = "Mapping" -> VisitMapping(ctx)
    [] ctx.kind = "MappingKey" -> VisitMappingKey(ctx)
    [] ctx.kind = "TupleExpression" -> VisitTupleExpression(ctx)
    [] ctx.kind = "NameValueList" -> VisitNameValueList(ctx)
    [] ctx.kind = "TypeName" -> VisitTypeName(ctx)
    [] ctx.kind = "ElementaryTypeName" -> VisitElementaryTypeName(ctx)
    [] ctx.kind = "UserDefinedTypeName" -> VisitUserDefinedTypeName(ctx)
    [] ctx.kind = "Parameter" -> VisitParameter(ctx)
    [] ctx.kind = "ParameterList" -> VisitParameterList(ctx)
    [] ctx.kind = "ReturnParameters" -> VisitReturnParameters(ctx)
    [] ctx.kind = "Block" -> VisitBlock(ctx)
    [] ctx.kind = "Statement" -> VisitStatement(ctx)
    [] ctx.kind = "SimpleStatement" -> VisitSimpleStatement(ctx)
    [] ctx.kind = "ExpressionStatement" -> VisitExpressionStatement(ctx)
    [] ctx.kind = "FunctionCall" -> VisitFunctionCall(ctx)
    [] ctx.kind = "CatchClause" -> VisitCatchClause(ctx)
    [] ctx.kind = "TryStatement" -> VisitTryStatement(ctx)
    [] ctx.kind = "ForStatement" -> VisitForStatement(ctx)
    [] ctx.kind = "ImportDirective" -> VisitImportDirective(ctx)
    [] ctx.kind = "SourceUnit" -> VisitSourceUnit(ctx)
    [] ctx.kind = "ContractDefinition" -> VisitContractDefinition(ctx)
    [] ctx.kind = "ContractPart" -> VisitContractPart(ctx)
    [] ctx.kind = "InheritanceSpecifier" -> VisitInheritanceSpecifier(ctx)
    [] ctx.kind = "InlineAssemblyStatement" -> VisitInlineAssemblyStatement(ctx)
    [] ctx.kind = "AssemblyBlock" -> VisitAssemblyBlock(ctx)
    [] ctx.kind = "AssemblyItem" -> VisitAssemblyItem(ctx)
    [] ctx.kind = "AssemblyExpression" -> VisitAssemblyExpression(ctx)
    [] ctx.kind = "AssemblyCall" -> VisitAssemblyCall(ctx)
    [] ctx.kind = "AssemblyLiteral" -> VisitAssemblyLiteral(ctx)
    [] ctx.kind = "StateVariableDeclaration" -> VisitStateVariableDeclaration(ctx)
    [] ctx.kind = "FunctionDefinition" -> VisitFunctionDefinition(ctx)
    [] ctx.kind = "ModifierDefinition" -> VisitModifierDefinition(ctx)
    [] ctx.kind = "OverrideSpecifier" -> VisitOverrideSpecifier(ctx)
    [] ctx.kind = "FunctionTypeName" -> VisitFunctionTypeName(ctx)
    [] ctx.kind = "FunctionTypeParameter" -> VisitFunctionTypeParameter(ctx)

(***************************************************************************)
(* The Visit calls of a builder.  A CST node is named by its path from the *)
(* root (child indices, 1-based); visits(ctx) lists, in call order, the    *)
(* paths relative to ctx of the nodes the builder of ctx hands to Visit.   *)
(* A builder that panics stops early: the calls it makes are then a prefix *)
(* of this list.                                                           *)
(***************************************************************************)
\* Positions of the children that are k rule contexts, in order.
RulePos(ctx, k) ==
  LET isK(i) == ctx.children[i].kind = k
  IN SelectSeq([i \in 1..Len(ctx.children) |-> i], isK)

\* e.Visit(ctx.X(n)) when ctx.X(n) is present.
nth(ctx, k, n) ==
  IF n < Len(RulePos(ctx, k)) THEN <<<<RulePos(ctx, k)[n + 1]>>>> ELSE <<>>

\* for _, x := range ctx.AllX() { e.Visit(x) }
all(ctx, k) == [j \in 1..Len(RulePos(ctx, k)) |-> <<RulePos(ctx, k)[j]>>]

\* e.Visit(ctx.GetChild(i)) when there is such a child.
childAt(ctx, i) == IF i < Len(ctx.children) THEN <<<<i + 1>>>> ELSE <<>>

\* The first n of seqs, one after the other.
RECURSIVE ConcatTo(_, _)
ConcatTo(seqs, n) == IF n = 0 THEN <<>> ELSE ConcatTo(seqs, n - 1) \o seqs[n]

Concat(seqs) == With(seqs, LAMBDA s : ConcatTo(s, Len(s)))

\* The calls sub(x) made on descendants of the child x at position p.
below(ctx, p, sub(_)) ==
  With(sub(ctx.children[p]),
       LAMBDA inner : [j \in 1..Len(inner) |-> <<p>> \o inner[j]])

\* Calls made on descendants of ctx.X(n), which itself is not visited.
under(ctx, k, n, sub(_)) ==
  IF n < Len(RulePos(ctx, k))
  THEN With(RulePos(ctx, k)[n + 1], LAMBDA p : below(ctx, p, sub))
  ELSE <<>>

\* Calls made on descendants of every ctx.AllX(), none of which is visited.
each(ctx, k, sub(_)) ==
  Concat([i \in 1..Len(ctx.children) |->
            IF ctx.children[i].kind = k THEN below(ctx, i, sub) ELSE <<>>])

parameterVisits(list) == all(list, "Parameter")

returnVisits(ret) == under(ret, "ParameterList", 0, parameterVisits)

overrideVisits(spec) == all(spec, "UserDefinedTypeName")

\* The arguments of a call: the expression list, or else the names and
\* values of the name/value list.
argumentVisits(args) ==
  LET expressions(list) == all(list, "Expression")
      pair(p) == nth(p, "Expression", 0) \o nth(p, "Identifier", 0)
      pairs(list) == each(list, "NameValue", pair)
  IN IF RulePos(args, "ExpressionList") # <<>>
     THEN under(args, "ExpressionList", 0, expressions)
     ELSE under(args, "NameValueList", 0, pairs)

expressionVisits(ctx) ==
  LET n == Len(ctx.children)
      text(i) == toText(GetChild(ctx, i))
      e(i) == nth(ctx, "Expression", i)
  IN CASE n = 1 -> childAt(ctx, 0)
       [] n = 2 ->
            IF text(0) = "new" THEN nth(ctx, "TypeName", 0)
            ELSE IF contains(unaryOps, text(0)) \/ contains(postFixOps, text(1))
            THEN e(0) ELSE <<>>
       [] n = 3 ->
            IF text(0) = "(" /\ text(2) = ")" THEN childAt(ctx, 1)
            ELSE IF text(1) = "." THEN e(0)
            ELSE IF contains(binaryOps, text(1)) THEN e(0) \o e(1)
            ELSE <<>>
       [] n = 4 ->
            IF text(1) = "(" /\ text(3) = ")"
            THEN IF RulePos(ctx, "FunctionCallArguments") = <<>> THEN <<>>
                 ELSE under(ctx, "FunctionCallArguments", 0, argumentVisits) \o e(0)
            ELSE IF text(1) = "[" /\ text(3) = "]"
            THEN IF text(2) = ":" THEN e(0) ELSE e(0) \o e(1)
            ELSE IF text(1) = "{" /\ text(3) = "}"
            THEN e(0) \o nth(ctx, "NameValueList", 0)
            ELSE <<>>
       [] n = 5 ->
            IF text(1) = "?" /\ text(3) = ":" THEN e(0) \o e(1) \o e(2)
            ELSE IF text(1) = "[" /\ text(4) = "]" /\ (text(2) = ":" \/ text(3) = ":")
            THEN e(0) \o e(1)
            ELSE <<>>
       [] n = 6 ->
            IF text(1) = "[" /\ text(3) = ":" /\ text(5) = "]"
            THEN e(0) \o e(1) \o e(2) ELSE <<>>
       [] OTHER -> <<>>

\* Positions lo..hi of the children that mapCommasToNulls keeps, those that
\* are not commas: none when it panics, which it does exactly when two of
\* them are adjacent.
kept(ctx, lo, hi) ==
  LET notComma(i) == toText(ctx.children[i]) # ","
  IN IF \E i \in lo..(hi - 1) : notComma(i) /\ notComma(i + 1) THEN <<>>
     ELSE SelectSeq([j \in 1..(hi - lo + 1) |-> lo + j - 1], notComma)

\* The number of slots that are present, and no more than there are of
\* declared: the next one is an index out of range.
slotsUsed(slots, declared) == IF slots < declared THEN slots ELSE declared

\* identifiers[indx] for each slot that is present.
identifierListVisits(list) ==
  LET count == GetChildCount(list)
  IN IF count < 2 THEN <<>>
     ELSE SubSeq(all(list, "Identifier"), 1,
                 slotsUsed(Len(kept(list, 2, count - 1)),
                           Len(RulePos(list, "Identifier"))))

\* The identifier and the type name of variableDeclarations[indx] for each
\* slot that is present.
variableDeclarationListVisits(list) ==
  LET parts(decl) == nth(decl, "Identifier", 0) \o nth(decl, "TypeName", 0)
      declared == RulePos(list, "VariableDeclaration")
  IN With(SubSeq(declared, 1,
                 slotsUsed(Len(kept(list, 1, GetChildCount(list))), Len(declared))),
          LAMBDA used : Concat([j \in 1..Len(used) |-> below(list, used[j], parts)]))

primaryExpressionVisits(ctx) ==
  IF ~IsNil(TokenOf(ctx, "BooleanLiteral")) THEN <<>>
  ELSE IF ~IsNil(RuleOf(ctx, "HexLiteral")) THEN nth(ctx, "HexLiteral", 0)
  ELSE IF ~IsNil(RuleOf(ctx, "StringLiteral")) THEN <<>>
  ELSE IF ~IsNil(RuleOf(ctx, "NumberLiteral")) THEN nth(ctx, "NumberLiteral", 0)
  ELSE IF ~IsNil(TokenOf(ctx, "TypeKeyword")) THEN <<>>
  ELSE IF /\ Len(ctx.children) = 3
          /\ toText(GetChild(ctx, 0)) = "["
          /\ toText(GetChild(ctx, 2)) = "]"
  THEN <<>>
  ELSE childAt(ctx, 0)

typeNameVisits(ctx) ==
  LET n == Len(ctx.children)
  IN IF n > 2
     THEN IF n = 4 /\ RulePos(ctx, "Expression") = <<>> THEN <<>>
          ELSE (IF n = 4 THEN nth(ctx, "Expression", 0) ELSE <<>>)
               \o nth(ctx, "TypeName", 0)
     ELSE IF n = 2 THEN <<>>
     ELSE IF RulePos(ctx, "ElementaryTypeName") # <<>>
     THEN nth(ctx, "ElementaryTypeName", 0)
     ELSE IF RulePos(ctx, "UserDefinedTypeName") # <<>>
     THEN nth(ctx, "UserDefinedTypeName", 0)
     ELSE IF RulePos(ctx, "Mapping") # <<>> THEN nth(ctx, "Mapping", 0)
     ELSE nth(ctx, "FunctionTypeName", 0)

importDirectiveVisits(ctx) ==
  LET declaration(d) ==
        nth(d, "Identifier", 0)
          \o (IF Len(RulePos(d, "Identifier")) > 1 THEN nth(d, "Identifier", 1)
              ELSE <<>>)
      idenList == RulePos(ctx, "Identifier")
  IN IF RulePos(ctx, "ImportDeclaration") # <<>>
     THEN each(ctx, "ImportDeclaration", declaration)
     ELSE CASE Len(idenList) = 1 -> nth(ctx, "Identifier", 0)
            [] Len(idenList) = 2 -> nth(ctx, "Identifier", 1)
            [] OTHER -> <<>>

functionDefinitionVisits(ctx) ==
  LET invocations(list) == all(list, "ModifierInvocation")
      descriptor == RuleOf(ctx, "FunctionDescriptor")
      overrides(list) == under(list, "OverrideSpecifier", 0, overrideVisits)
  IN IF \/ RulePos(ctx, "ModifierList") = <<>>
        \/ RulePos(ctx, "ParameterList") = <<>>
     THEN nth(ctx, "Block", 0)
     ELSE nth(ctx, "Block", 0)
          \o under(ctx, "ModifierList", 0, invocations)
          \o under(ctx, "ParameterList", 0, parameterVisits)
          \o (IF ~IsNil(descriptor) /\ toText(GetChild(descriptor, 0)) = "function"
              THEN under(ctx, "ReturnParameters", 0, returnVisits) ELSE <<>>)
          \o (IF IsNil(descriptor) THEN <<>>
              ELSE under(ctx, "ModifierList", 0, overrides))

eventDefinitionVisits(ctx) ==
  LET parameter(p) == nth(p, "Identifier", 0) \o nth(p, "TypeName", 0)
      parameters(list) == each(list, "EventParameter", parameter)
  IN under(ctx, "EventParameterList", 0, parameters)

\* Every Visit call of a builder that is a direct child access.
childVisits(ctx) ==
  LET k == ctx.kind
      one(x) == nth(ctx, x, 0)
  IN CASE k \in {"ContractPart", "Statement", "SimpleStatement", "AssemblyItem",
                 "AssemblyExpression"} -> childAt(ctx, 0)
       [] k = "ContractDefinition" ->
            all(ctx, "ContractPart") \o all(ctx, "InheritanceSpecifier")
       [] k = "InheritanceSpecifier" ->
            one("UserDefinedTypeName") \o one("ExpressionList")
       [] k = "StructDefinition" -> all(ctx, "VariableDeclaration")
       [] k = "VariableDeclaration" -> one("Identifier") \o one("TypeName")
       [] k = "Parameter" -> one("TypeName") \o one("Identifier")
       [] k = "Block" -> all(ctx, "Statement")
       [] k = "ExpressionStatement" -> one("Expression")
       [] k = "Mapping" -> one("MappingKey") \o one("TypeName")
       [] k = "MappingKey" ->
            IF RulePos(ctx, "ElementaryTypeName") # <<>>
            THEN one("ElementaryTypeName") ELSE one("UserDefinedTypeName")
       [] k = "TypeNameExpression" ->
            IF RulePos(ctx, "ElementaryTypeName") # <<>>
            THEN one("ElementaryTypeName") ELSE one("UserDefinedTypeName")
       [] k = "ForStatement" ->
            one("ExpressionStatement") \o one("Statement")
              \o one("SimpleStatement") \o one("Expression")
       [] k \in {"WhileStatement", "DoWhileStatement"} ->
            one("Expression") \o one("Statement")
       [] k = "IfStatement" ->
            one("Expression") \o one("Statement") \o nth(ctx, "Statement", 1)
       [] k = "EnumDefinition" -> all(ctx, "EnumValue")
       [] k = "ReturnStatement" -> one("Expression")
       [] k = "FunctionTypeParameter" -> one("TypeName")
       [] k = "UsingForDeclaration" -> one("TypeName")
       [] k = "InlineAssemblyStatement" -> one("AssemblyBlock")
       [] k = "AssemblyBlock" -> all(ctx, "AssemblyItem")
       [] k = "AssemblyCall" -> all(ctx, "AssemblyExpression")
       [] k = "AssemblySwitch" ->
            one("AssemblyExpression") \o all(ctx, "AssemblyCase")
       [] k \in {"AssemblyCase", "AssemblyFunctionDefinition"} ->
            one("AssemblyBlock")
       [] k \in {"AssemblyLocalDefinition", "AssemblyAssignment"} ->
            one("AssemblyExpression")
       [] k = "AssemblyFor" ->
            childAt(ctx, 0) \o childAt(ctx, 1) \o childAt(ctx, 2) \o childAt(ctx, 3)
       [] k = "AssemblyIf" -> one("AssemblyExpression") \o one("AssemblyBlock")
       [] k = "AssemblyMember" -> one("Identifier") \o nth(ctx, "Identifier", 1)
       [] k \in {"EmitStatement", "RevertStatement"} -> one("FunctionCall")
       [] k = "FileLevelConstant" -> one("TypeName") \o one("Expression")
       [] k = "UncheckedStatement" -> one("Block")
       [] k = "TypeDefinition" -> one("ElementaryTypeName")
       [] OTHER -> <<>>

\* A table in which every builder visits each of its children twice.
visitsEachChildTwice(ctx) ==
  [j \in 1..(2 * Len(ctx.children)) |-> <<((j - 1) \div 2) + 1>>]

\* visits(ctx): the calls of funcMap[kind of ctx](ctx), in call order.  Visit
\* returns at once for a terminal and panics for a production without a
\* builder.
visits(ctx) ==
  LET k == ctx.kind
  IN IF IsTerminal(ctx) \/ k \notin funcMap THEN <<>>
     ELSE CASE k = "SourceUnit" -> [j \in 1..Len(ctx.children) |-> <<j>>]
            [] k = "Expression" -> expressionVisits(ctx)
            [] k = "PrimaryExpression" -> primaryExpressionVisits(ctx)
            [] k = "TypeName" -> typeNameVisits(ctx)
            [] k = "ImportDirective" -> importDirectiveVisits(ctx)
            [] k = "FunctionDefinition" -> functionDefinitionVisits(ctx)
            [] k = "EventDefinition" -> eventDefinitionVisits(ctx)
            [] k = "StateVariableDeclaration" ->
                 under(ctx, "OverrideSpecifier", 0, overrideVisits)
                   \o nth(ctx, "TypeName", 0) \o nth(ctx, "Identifier", 0)
                   \o nth(ctx, "Expression", 0)
            [] k = "ModifierDefinition" ->
                 under(ctx, "OverrideSpecifier", 0, overrideVisits)
                   \o nth(ctx, "Block", 0)
            [] k = "ModifierInvocation" ->
                 under(ctx, "ExpressionList", 0, LAMBDA l : all(l, "Expression"))
            [] k = "FunctionTypeName" ->
                 under(ctx, "FunctionTypeParameterList", 0,
                       LAMBDA l : all(l, "FunctionTypeParameter"))
                   \o under(ctx, "FunctionTypeParameterList", 1,
                            LAMBDA l : all(l, "FunctionTypeParameter"))
            [] k = "NameValueList" ->
                 each(ctx, "NameValue",
                      LAMBDA p : nth(p, "Identifier", 0) \o nth(p, "Expression", 0))
            [] k = "TupleExpression" ->
                 IF GetChildCount(ctx) < 2 THEN <<>>
                 ELSE [j \in 1..Len(kept(ctx, 2, GetChildCount(ctx) - 1)) |->
                         <<kept(ctx, 2, GetChildCount(ctx) - 1)[j]>>]
            [] k = "VariableDeclarationStatement" ->
                 (IF RulePos(ctx, "VariableDeclaration") # <<>>
                  THEN nth(ctx, "VariableDeclaration", 0)
                  ELSE IF RulePos(ctx, "IdentifierList") # <<>>
                  THEN under(ctx, "IdentifierList", 0, identifierListVisits)
                  ELSE under(ctx, "VariableDeclarationList", 0,
                             variableDeclarationListVisits))
                   \o nth(ctx, "Expression", 0)
            [] k = "FunctionCall" ->
                 nth(ctx, "Expression", 0)
                   \o under(ctx, "FunctionCallArguments", 0, argumentVisits)
            [] k = "TryStatement" ->
                 all(ctx, "CatchClause") \o nth(ctx, "Expression", 0)
                   \o nth(ctx, "Block", 0)
                   \o under(ctx, "ReturnParameters", 0, returnVisits)
            [] k = "CatchClause" ->
                 IF /\ RulePos(ctx, "Identifier") # <<>>
                    /\ toText(RuleOf(ctx, "Identifier")) \notin {"Error", "Panic"}
                 THEN <<>>
                 ELSE nth(ctx, "Block", 0)
                        \o under(ctx, "ParameterList", 0, parameterVisits)
            [] k = "CustomErrorDefinition" ->
                 under(ctx, "ParameterList", 0, parameterVisits)
            [] k = "ReturnParameters" -> returnVisits(ctx)
            [] k = "ParameterList" -> parameterVisits(ctx)
            [] OTHER -> childVisits(ctx)

\* The node reached from node by the steps i, i + 1, ... of path.
RECURSIVE NodeFrom(_, _, _)
NodeFrom(node, path, i) ==
  IF i > Len(path) THEN node ELSE NodeFrom(node.children[path[i]], path, i + 1)

\* The node at a path below tree.
NodeAt(tree, path) == NodeFrom(tree, path, 1)

(***************************************************************************)
(* Inputs: concrete syntax trees                                           *)
(***************************************************************************)
MaxLen == 5

MaxChildren == 7

MaxArgs == 2

MaxCatch == 3

\* The number of declarations between the braces of an import directive.
MaxImports == 2

\* The number of syntax errors the parser reports for one source.
MaxErrors == 2

\* The number of items of an assembly block.
MaxItems == 2

\* The number of visibility keywords written on one declaration.
MaxKeywords == 2

RECURSIVE SeqsOfLen(_, _)
SeqsOfLen(S, n) ==
  IF n = 0 THEN {<<>>}
  ELSE {Append(s, x) : s \in SeqsOfLen(S, n - 1), x \in S}

SeqsUpTo(S, n) == UNION {SeqsOfLen(S, k) : k \in 0..n}

\* e1 , e2 , ... : the elements with a comma between neighbours.
CommaSeparated(elems) ==
  [k \in 1..(IF Len(elems) = 0 THEN 0 ELSE 2 * Len(elems) - 1) |->
     IF k % 2 = 1 THEN elems[(k + 1) \div 2] ELSE Terminal(",")]

Ident(name) == Rule("Identifier", <<Terminal(name)>>)

Primary(child) == Rule("Expression", <<Rule("PrimaryExpression", <<child>>)>>)

IdentExpr(name) == Primary(Ident(name))

NumExpr(n) == Primary(Rule("NumberLiteral", <<Terminal(n)>>))

ElementaryType(name) ==
  Rule("TypeName", <<Rule("ElementaryTypeName", <<Terminal(name)>>)>>)

\* An expression node that wraps one token: its text is the token's text.
TokenExpr(s) == Rule("Expression", <<Terminal(s)>>)

\* An expression no row of the classification accepts.
BadExpr == Rule("Expression", <<>>)

PositionalArgs ==
  {Rule("FunctionCallArguments", <<Rule("ExpressionList", CommaSeparated(es))>>) :
     es \in SeqsUpTo({IdentExpr("a"), NumExpr("1")}, MaxArgs)}

NameValueLists ==
  LET NameValues ==
        {Rule("NameValue", <<Ident(n), Terminal(":"), v>>) :
           n \in {"value", "gas"}, v \in {NumExpr("10"), IdentExpr("a")}}
  IN
    {Rule("NameValueList", CommaSeparated(nvs)) : nvs \in SeqsUpTo(NameValues, MaxArgs)}

CallArguments ==
  LET NamedArgs ==
        {Rule("FunctionCallArguments", <<Terminal("{"), l, Terminal("}")>>) :
           l \in NameValueLists}
      OddArgs ==
        {Rule("FunctionCallArguments", <<>>),
         Rule("FunctionCallArguments", <<Terminal("{"), Terminal("}")>>),
         Rule("FunctionCallArguments",
              <<Rule("ExpressionList", <<IdentExpr("a")>>),
                Rule("NameValueList",
                     <<Rule("NameValue", <<Ident("gas"), Terminal(":"), NumExpr("1")>>)>>)>>),
         Rule("FunctionCallArguments", <<Rule("ExpressionList", <<BadExpr>>)>>),
         Rule("FunctionCallArguments",
              <<Terminal("{"),
                Rule("NameValueList", <<Rule("NameValue", <<Terminal(":"), NumExpr("1")>>)>>),
                Terminal("}")>>)}
  IN
    PositionalArgs \cup NamedArgs \cup OddArgs

\* f{value: 10}
ConfigCall ==
  Rule("Expression",
       <<IdentExpr("f"), Terminal("{"),
         Rule("NameValueList",
              <<Rule("NameValue", <<Ident("value"), Terminal(":"), NumExpr("10")>>)>>),
         Terminal("}")>>)

Terminals(S) == {Terminal(s) : s \in S}

\* The children an expression node with n children may have at position i.
PosPool(n, i) ==
  LET OperatorTokens ==
        {"+", "-", "*", "/", "**", "%", "<<", ">>", "&&", "||", "&", "|", "^", "<", ">",
         "<=", ">=", "==", "!=", "=", "|=", "^=", "&=", "<<=", ">>=", "+=", "-=", "*=",
         "/=", "%=", "++", "--", "~", "!", "after", "delete", "new"}
      OtherTokens ==
        {".", ",", ",,", ",=", ":", ";", "?", "(", ")", "[", "]", "{", "}", "=>", ">>>"}
  IN
    CASE n = 1 ->
           {Rule("PrimaryExpression", <<Ident("a")>>),
            Rule("PrimaryExpression", <<Rule("NumberLiteral", <<Terminal("1")>>)>>),
            Rule("PrimaryExpression",
                 <<Rule("NumberLiteral", <<Terminal("1"), Terminal("ether")>>)>>),
            Rule("PrimaryExpression", <<Terminal("true")>>),
            Rule("PrimaryExpression", <<Terminal("type")>>),
            Rule("PrimaryExpression",
                 <<Ident("a"), Terminal("["), Terminal("]")>>),
            Rule("PrimaryExpression", <<>>),
            Terminal(";"), BadExpr, Rule("FunctionCallArguments", <<>>)}
           \cup {Rule("PrimaryExpression",
                      <<Rule("TupleExpression",
                             <<Terminal(b[1])>> \o t \o <<Terminal(b[2])>>)>>) :
                   t \in SeqsUpTo({Terminal(","), IdentExpr("a")}, 3),
                   b \in {<<"(", ")">>, <<"[", "]">>}}
      [] n = 2 /\ i = 0 ->
           Terminals({"new", "-", "+", "--", "++", "~", "after", "delete", "!", ";", "*"})
           \cup {IdentExpr("a"), TokenExpr("-")}
      [] n = 2 /\ i = 1 ->
           Terminals({"++", "--", "+", ";"})
           \cup {IdentExpr("a"), BadExpr, ElementaryType("uint"), TokenExpr("++"),
                 TokenExpr("new")}
      [] n = 3 /\ i = 0 -> {IdentExpr("a"), BadExpr, Terminal("("), Terminal("[")}
      [] n = 3 /\ i = 1 ->
           Terminals(OperatorTokens \cup OtherTokens) \cup {IdentExpr("b")}
      [] n = 3 /\ i = 2 ->
           {IdentExpr("b"), Ident("m"), Terminal(")"), Terminal("]")}
      [] n = 4 /\ i = 0 -> {IdentExpr("f"), ConfigCall}
      [] n = 4 /\ i = 1 -> Terminals({"(", "[", "{", "."})
      [] n = 4 /\ i = 2 ->
           CallArguments \cup NameValueLists
           \cup {IdentExpr("b"), BadExpr, Terminal(":"), Terminal(";")}
      [] n = 4 /\ i = 3 -> Terminals({")", "]", "}"})
      [] n = 5 /\ i = 0 -> {IdentExpr("a")}
      [] n = 5 /\ i = 1 -> Terminals({"?", "[", "("})
      [] n = 5 /\ i = 2 -> {IdentExpr("b"), NumExpr("3"), Terminal(":")}
      [] n = 5 /\ i = 3 -> {IdentExpr("c"), NumExpr("20"), Terminal(":")}
      [] n = 5 /\ i = 4 -> {IdentExpr("d"), Terminal("]"), Terminal(")")}
      [] n = 6 /\ i = 0 -> {IdentExpr("a")}
      [] n = 6 /\ i = 1 -> Terminals({"[", "("})
      [] n = 6 /\ i = 2 -> {NumExpr("0"), BadExpr, Terminal(":")}
      [] n = 6 /\ i = 3 -> {Terminal(":"), Terminal(","), IdentExpr("c")}
      [] n = 6 /\ i = 4 -> {NumExpr("4"), IdentExpr("c"), Terminal(":")}
      [] n = 6 /\ i = 5 -> Terminals({"]", ")"})
      [] OTHER -> {IdentExpr("a"), Terminal("[")}

RECURSIVE Shapes(_, _)
Shapes(n, i) ==
  IF i = 0 THEN {<<>>}
  ELSE {Append(s, x) : s \in Shapes(n, i - 1), x \in PosPool(n, i - 1)}

ExprInputs ==
  UNION {{Rule("Expression", s) : s \in Shapes(n, n)} : n \in 0..MaxChildren}

\* The FunctionCall production: expression ( functionCallArguments )
FunctionCallInputs ==
  {Rule("FunctionCall", <<f, Terminal("("), a, Terminal(")")>>) :
     f \in {IdentExpr("f"), BadExpr}, a \in CallArguments}
  \cup {Rule("FunctionCall", <<IdentExpr("f"), Terminal("("), Terminal(")")>>),
        Rule("FunctionCall", <<Terminal("("), CHOOSE a \in PositionalArgs : TRUE,
                               Terminal(")")>>)}

EmptyBlock == Rule("Block", <<Terminal("{"), Terminal("}")>>)

OneStatementBlock ==
  Rule("Block",
       <<Terminal("{"),
         Rule("Statement",
              <<Rule("SimpleStatement",
                     <<Rule("ExpressionStatement",
                            <<IdentExpr("a"), Terminal(";")>>)>>)>>),
         Terminal("}")>>)

Param(type, name) ==
  Rule("Parameter", <<ElementaryType(type), Ident(name)>>)

ParamList(ps) ==
  Rule("ParameterList", <<Terminal("(")>> \o CommaSeparated(ps) \o <<Terminal(")")>>)

MemoryParam ==
  Rule("Parameter",
       <<ElementaryType("string"), Rule("StorageLocation", <<Terminal("memory")>>),
         Ident("b")>>)

\* for ( init cond loop ) body, each clause written or not.
ExprStatement(e) == Rule("ExpressionStatement", <<e, Terminal(";")>>)

\* Declarations: visibility keywords in every order, override specifiers.
Keywords(S) == SeqsUpTo(Terminals(S), MaxKeywords)

BaseType(name) == Rule("UserDefinedTypeName", <<Ident(name)>>)

OverrideSpecifiers ==
  {<<>>,
   <<Rule("OverrideSpecifier", <<Terminal("override")>>)>>,
   <<Rule("OverrideSpecifier",
          <<Terminal("override"), Terminal("("), BaseType("Base1"), Terminal(")")>>)>>,
   <<Rule("OverrideSpecifier",
          <<Terminal("override"), Terminal("("), BaseType("Base1"), Terminal(","),
            BaseType("Base2"), Terminal(")")>>)>>}

Virtuals == {<<>>, <<Terminal("virtual")>>}

FunctionDescriptors ==
  {Rule("FunctionDescriptor", <<Terminal(t)>>) :
     t \in {"constructor", "fallback", "receive", "function"}}
  \cup {Rule("FunctionDescriptor", <<Terminal("function"), Ident("foo")>>)}

FunctionTypeInputs ==
  LET FunctionTypeParameters(ps) ==
        Rule("FunctionTypeParameterList",
             <<Terminal("(")>> \o CommaSeparated(ps) \o <<Terminal(")")>>)
  IN
    {Rule("FunctionTypeName",
          <<Terminal("function"), FunctionTypeParameters(ps)>> \o kw \o m \o r) :
       ps \in {<<>>, <<Rule("FunctionTypeParameter", <<ElementaryType("uint")>>)>>},
       kw \in Keywords({"internal", "external"}),
       m \in {<<>>, <<Rule("StateMutability", <<Terminal("view")>>)>>},
       r \in {<<>>, <<Terminal("returns"), FunctionTypeParameters(<<>>)>>}}
    \cup {Rule("FunctionTypeName", <<Terminal("function")>>)}

\* Import directives of the three grammar alternatives, and malformed ones.
ImportPath == Rule("ImportPath", <<Terminal("\"./abc.sol\"")>>)

UnitImports ==
  {Rule("ImportDirective", <<Terminal("import")>> \o h \o <<Terminal(";")>>) :
     h \in {<<ImportPath>>,
            <<ImportPath, Terminal("as"), Ident("x")>>,
            <<Terminal("*"), Terminal("as"), Ident("x"), Terminal("from"), ImportPath>>,
            <<Ident("a"), Terminal("as"), Ident("b"), Terminal("from"), ImportPath>>,
            <<Ident("a"), Terminal("from"), ImportPath>>,
            <<Ident("a"), Terminal("as"), Ident("b"), Ident("c"), Terminal("from"),
              ImportPath>>,
            <<>>}}

\* Inline assembly: items that are an identifier, a number, a keyword, an
\* expression, and a string literal (which has no builder).
AssemblyExpressions ==
  {Rule("AssemblyExpression", <<Rule("AssemblyLiteral", <<Terminal("1")>>)>>),
   Rule("AssemblyExpression",
        <<Rule("AssemblyCall", <<Ident("stop"), Terminal("("), Terminal(")")>>)>>)}

AssemblyItems ==
  {Rule("AssemblyItem", <<c>>) :
     c \in {Ident("x"), Rule("NumberLiteral", <<Terminal("1")>>), Terminal("break"),
            Rule("StringLiteral", <<Terminal("\"abc\"")>>)}
           \cup AssemblyExpressions}

\* Base contracts without arguments, with an empty and with a written list.
InheritanceInputs ==
  {Rule("InheritanceSpecifier", <<BaseType("B")>> \o a) :
     a \in {<<>>, <<Terminal("("), Terminal(")")>>,
            <<Terminal("("), Rule("ExpressionList", <<NumExpr("1")>>), Terminal(")")>>}}

ContractPart(d) == Rule("ContractPart", <<d>>)

ContractInputs ==
  {Rule("ContractDefinition",
        <<Terminal(k), Ident("A")>> \o b \o <<Terminal("{")>> \o ps \o <<Terminal("}")>>) :
     k \in {"contract", "library"},
     b \in {<<>>} \cup {<<Terminal("is"), i>> : i \in InheritanceInputs},
     ps \in {<<>>,
             <<ContractPart(Rule("StateVariableDeclaration",
                                 <<ElementaryType("uint"), Ident("x"), Terminal(";")>>))>>,
             <<ContractPart(Rule("ModifierDefinition",
                                 <<Terminal("modifier"), Ident("foo"), EmptyBlock>>)),
               ContractPart(Rule("FunctionDefinition",
                                 <<Rule("FunctionDescriptor", <<Terminal("function")>>),
                                   ParamList(<<>>), Rule("ModifierList", <<>>),
                                   EmptyBlock>>))>>}}

\* The number of fragments of one string or hex literal.
MaxFragments == 2

Fragments(texts) == [k \in 1..Len(texts) |-> Terminal(texts[k])]

\* import "./a.sol"; and import './a.sol';
QuotedImports ==
  {Rule("ImportDirective",
        <<Terminal("import"), Rule("ImportPath", <<Terminal(p)>>), Terminal(";")>>) :
     p \in {"\"./a.sol\"", "'./a.sol'"}}

LiteralInputs ==
  LET HexLiteralInputs ==
        LET HexFragments == {"hex\"fa\"", "hex'fa'", "hex\"\""}
        IN
          {Primary(Rule("HexLiteral", Fragments(t))) :
             t \in SeqsUpTo(HexFragments, MaxFragments) \ {<<>>}}
      StringLiteralInputs ==
        LET StringFragments == {"\"Hi\"", "'Hi'", "unicode\"Hi\"", "unicode'Hi'", "\"\""}
        IN
          {Primary(Rule("StringLiteral", Fragments(t))) :
             t \in SeqsUpTo(StringFragments, MaxFragments) \ {<<>>}}
  IN
    HexLiteralInputs \cup StringLiteralInputs \cup QuotedImports

\* abstract contract A {}, abstract contract A is B {} and interface A {}.
AbstractContracts ==
  {Rule("ContractDefinition",
        h \o <<Ident("A")>> \o b \o <<Terminal("{"), Terminal("}")>>) :
     h \in {<<Terminal("abstract"), Terminal("contract")>>, <<Terminal("interface")>>},
     b \in {<<>>, <<Terminal("is"), Rule("InheritanceSpecifier", <<BaseType("B")>>)>>}}

\* The type names with one child, and address payable.
PlainTypes ==
  LET \* mapping(uint => address)
      MappingType ==
        Rule("TypeName",
             <<Rule("Mapping",
                    <<Terminal("mapping"), Terminal("("),
                      Rule("MappingKey", <<Rule("ElementaryTypeName", <<Terminal("uint")>>)>>),
                      Terminal("=>"), ElementaryType("address"), Terminal(")")>>)>>)
  IN
    {ElementaryType("uint"), Rule("TypeName", <<BaseType("A")>>), MappingType,
     Rule("TypeName", <<Terminal("address"), Terminal("payable")>>)}
    \cup {Rule("TypeName", <<f>>) :
            f \in {g \in FunctionTypeInputs : Len(g.children) = 2}}

\* T[], T[1] and T[x], also of an array type T.
ArrayTypes(base) ==
  {Rule("TypeName", <<t, Terminal("[")>> \o l \o <<Terminal("]")>>) :
     t \in base, l \in {<<>>, <<NumExpr("1")>>, <<IdentExpr("x")>>}}

TypeNameInputs ==
  LET \* Type names no source text gives: without children, with a child that is
      \* no type, and four children without a length expression.
      BrokenTypes ==
        {Rule("TypeName", <<>>), Rule("TypeName", <<Ident("x")>>),
         Rule("TypeName", <<ElementaryType("uint"), Terminal("["), Terminal("]"),
                            Terminal("]")>>)}
  IN
    PlainTypes \cup ArrayTypes(PlainTypes) \cup ArrayTypes(ArrayTypes(PlainTypes))
    \cup BrokenTypes

\* ( identifier? ',' )* identifier?  and the same of variable declarations:
\* no two elements stand next to each other.
SparseSeqs(elements) ==
  {t \in SeqsUpTo(elements \cup {Terminal(",")}, MaxLen) :
     \A i \in 1..(Len(t) - 1) : t[i] = Terminal(",") \/ t[i + 1] = Terminal(",")}

\* var (a,,b) = 0;  (uint a,, bytes memory b) = 0;  uint a = 0;  uint a;
VariableDeclarationInputs ==
  LET IdentifierLists ==
        {Rule("IdentifierList", <<Terminal("(")>> \o t \o <<Terminal(")")>>) :
           t \in SparseSeqs({Ident("a"), Ident("b")})}
      VariableDeclarationLists ==
        {Rule("VariableDeclarationList", t) :
           t \in SparseSeqs({Rule("VariableDeclaration", <<ElementaryType("uint"), Ident("a")>>),
                             Rule("VariableDeclaration",
                                  <<ElementaryType("bytes"),
                                    Rule("StorageLocation", <<Terminal("memory")>>),
                                    Ident("b")>>)})}
  IN
    {Rule("VariableDeclarationStatement", <<Terminal("var"), l>> \o i \o <<Terminal(";")>>) :
       l \in IdentifierLists, i \in {<<>>, <<Terminal("="), NumExpr("0")>>}}
    \cup {Rule("VariableDeclarationStatement",
               <<Terminal("("), l, Terminal(")")>> \o i \o <<Terminal(";")>>) :
            l \in VariableDeclarationLists, i \in {<<>>, <<Terminal("="), NumExpr("0")>>}}
    \cup {Rule("VariableDeclarationStatement",
               <<Rule("VariableDeclaration", <<ElementaryType("uint"), Ident("a")>>)>>
                 \o i \o <<Terminal(";")>>) :
            i \in {<<>>, <<Terminal("="), NumExpr("0")>>}}

VisitInputs ==
  LET \* catch identifier? parameterList? block, each part present or not
      CatchInputs ==
        {Rule("CatchClause", <<Terminal("catch")>> \o id \o pl \o b) :
           id \in {<<>>, <<Ident("Error")>>, <<Ident("Panic")>>, <<Ident("Foo")>>,
                   <<Ident("error")>>, <<Ident("")>>},
           pl \in {<<>>, <<ParamList(<<>>)>>, <<ParamList(<<MemoryParam>>)>>,
                   <<ParamList(<<Param("uint", "a"), Param("uint", "c")>>)>>},
           b \in {<<>>, <<EmptyBlock>>, <<OneStatementBlock>>}}
      TryInputs ==
        LET TryCatches ==
              {Rule("CatchClause", <<Terminal("catch"), Ident("Error"),
                                     ParamList(<<MemoryParam>>), EmptyBlock>>),
               Rule("CatchClause", <<Terminal("catch"), Ident("Panic"),
                                     ParamList(<<Param("uint", "errorCode")>>), EmptyBlock>>),
               Rule("CatchClause", <<Terminal("catch"), ParamList(<<Param("bytes", "c")>>),
                                     EmptyBlock>>),
               Rule("CatchClause", <<Terminal("catch"), Ident("Foo"), ParamList(<<>>),
                                     EmptyBlock>>)}
        IN
          {Rule("TryStatement",
                <<Terminal("try"), IdentExpr("f")>> \o r \o <<EmptyBlock>> \o cs) :
             r \in {<<>>, <<Terminal("returns"),
                            Rule("ReturnParameters", <<ParamList(<<Param("uint", "a")>>)>>)>>},
             cs \in SeqsUpTo(TryCatches, MaxCatch)}
      ForInputs ==
        LET ForInits ==
              {<<Terminal(";")>>,
               <<Rule("SimpleStatement", <<ExprStatement(IdentExpr("i"))>>)>>}
            ForConditions ==
              {<<Terminal(";")>>, <<ExprStatement(IdentExpr("c"))>>, <<ExprStatement(BadExpr)>>}
            ForLoops == {<<>>, <<IdentExpr("l")>>, <<BadExpr>>}
            ForBodies == {<<>>, <<Rule("Statement", <<EmptyBlock>>)>>}
        IN
          {Rule("ForStatement",
                <<Terminal("for"), Terminal("(")>> \o i \o c \o l \o <<Terminal(")")>> \o b) :
             i \in ForInits, c \in ForConditions, l \in ForLoops, b \in ForBodies}
      DeclarationInputs ==
        LET FunctionInputs ==
              {Rule("FunctionDefinition",
                    <<d, ParamList(<<>>), Rule("ModifierList", kw \o v \o o), EmptyBlock>>) :
                 d \in FunctionDescriptors,
                 kw \in Keywords({"external", "internal", "public", "private"}),
                 v \in Virtuals, o \in OverrideSpecifiers}
              \cup {Rule("FunctionDefinition",
                         <<d, ParamList(<<Param("uint", "a")>>), Rule("ModifierList", <<>>)>>
                         \o r \o <<Terminal(";")>>) :
                      d \in FunctionDescriptors,
                      r \in {<<>>, <<Rule("ReturnParameters",
                                          <<Terminal("returns"),
                                            ParamList(<<Rule("Parameter", <<ElementaryType("uint")>>)>>)>>)>>}}
              \cup {Rule("FunctionDefinition",
                         <<Rule("FunctionDescriptor", <<Terminal("function")>>), ParamList(<<>>)>>)}
            StateVariableInputs ==
              {Rule("StateVariableDeclaration",
                    <<ElementaryType("uint")>> \o kw \o c \o o \o <<Ident("x")>> \o i
                    \o <<Terminal(";")>>) :
                 kw \in Keywords({"internal", "public", "private"}),
                 c \in {<<>>, <<Terminal("constant")>>, <<Terminal("immutable")>>},
                 o \in OverrideSpecifiers,
                 i \in {<<>>, <<Terminal("="), NumExpr("1")>>}}
            ModifierInputs ==
              {Rule("ModifierDefinition",
                    <<Terminal("modifier"), Ident("foo")>> \o v \o o \o b) :
                 v \in Virtuals, o \in OverrideSpecifiers,
                 b \in {<<EmptyBlock>>, <<Terminal(";")>>}}
        IN
          FunctionInputs \cup StateVariableInputs \cup FunctionTypeInputs \cup ModifierInputs
      ImportInputs ==
        LET SymbolImports ==
              LET ImportDeclarations ==
                    {Rule("ImportDeclaration", <<Ident("a"), Terminal("as"), Ident("b")>>),
                     Rule("ImportDeclaration", <<Ident("c")>>),
                     Rule("ImportDeclaration", <<Terminal("as")>>)}
              IN
                {Rule("ImportDirective",
                      <<Terminal("import"), Terminal("{")>> \o CommaSeparated(ds)
                      \o <<Terminal("}")>> \o x \o <<Terminal("from"), ImportPath, Terminal(";")>>) :
                   ds \in SeqsUpTo(ImportDeclarations, MaxImports) \ {<<>>},
                   x \in {<<>>, <<Terminal("as"), Ident("x")>>}}
        IN
          UnitImports \cup SymbolImports
      AssemblyInputs ==
        LET AssemblyBlocks ==
              {Rule("AssemblyBlock", <<Terminal("{")>> \o items \o <<Terminal("}")>>) :
                 items \in SeqsUpTo(AssemblyItems, MaxItems)}
        IN
          AssemblyExpressions \cup AssemblyItems \cup AssemblyBlocks
          \cup {Rule("InlineAssemblyStatement", <<Terminal("assembly"), b>>) :
                  b \in AssemblyBlocks}
      \* function foo() pure returns (uint) {} and the like: a mutability keyword,
      \* alone or after a visibility keyword, with and without a returns clause,
      \* for every descriptor; "unknown" stands for a descriptor of no known kind.
      MutabilityInputs ==
        {Rule("FunctionDefinition",
              <<d, ParamList(<<>>),
                Rule("ModifierList", kw \o <<Rule("StateMutability", <<Terminal(m)>>)>>)>>
              \o r \o <<EmptyBlock>>) :
           d \in FunctionDescriptors \cup {Rule("FunctionDescriptor", <<Terminal("unknown")>>)},
           kw \in {<<>>, <<Terminal("public")>>},
           m \in {"pure", "view", "payable"},
           r \in {<<>>, <<Rule("ReturnParameters",
                               <<Terminal("returns"),
                                 ParamList(<<Rule("Parameter", <<ElementaryType("uint")>>)>>)>>)>>}}
      \* event Foo(uint indexed a, uint);
      EventInputs ==
        {Rule("EventDefinition",
              <<Terminal("event"), Ident("Foo"),
                Rule("EventParameterList",
                     <<Terminal("(")>> \o CommaSeparated(ps) \o <<Terminal(")")>>),
                Terminal(";")>>) :
           ps \in SeqsUpTo({Rule("EventParameter",
                                 <<ElementaryType("uint"), Terminal("indexed"), Ident("a")>>),
                            Rule("EventParameter", <<ElementaryType("uint")>>)},
                           MaxArgs)}
      \* Productions handed to Visit as the root: parameter lists, whose builders
      \* return a slice.
      ListInputs ==
        {ParamList(ps) : ps \in {<<>>, <<Param("uint", "a")>>}}
        \cup {Rule("ReturnParameters", <<Terminal("returns"), ParamList(ps)>>) :
                ps \in {<<>>, <<Param("uint", "a")>>}}
        \cup {Param("uint", "a"), Rule("ExpressionList", <<NumExpr("1")>>)}
  IN
    FunctionCallInputs \cup CatchInputs \cup TryInputs \cup ExprInputs \cup ForInputs
    \cup DeclarationInputs \cup ImportInputs \cup AssemblyInputs \cup InheritanceInputs
    \cup ContractInputs \cup AbstractContracts \cup ListInputs \cup LiteralInputs
    \cup TypeNameInputs \cup VariableDeclarationInputs \cup MutabilityInputs
    \cup EventInputs
    \cup {Terminal("<EOF>"), Rule("FunctionCallArguments", <<>>)}

(***************************************************************************)
(* Specification: one call of an operation on one input                    *)
(***************************************************************************)
\* What the generated parser delivers for a source text: the tree of the
\* source unit and the syntax errors it reports to its listener, in order.
SourceUnit(children) == Rule("SourceUnit", children \o <<Terminal("<EOF>")>>)

SourceUnits ==
  {SourceUnit(<<>>)}
  \cup {SourceUnit(<<c>>) : c \in ContractInputs}
  \cup {SourceUnit(<<i, c>>) :
          i \in {u \in UnitImports : Len(u.children) = 3},
          c \in {d \in ContractInputs : Len(d.children) = 4}}

Calls ==
  LET ScanInputs ==
        LET ScanAlphabet == {Terminal(","), Ident("a"), Ident("b")}
        IN
          SeqsUpTo(ScanAlphabet, MaxLen)
      ParseInputs ==
        LET Reports ==
              SeqsUpTo({[line |-> 1, column |-> 5, msg |-> "missing ';' at '}'"],
                        [line |-> 2, column |-> 0, msg |-> "extraneous input ')'"]},
                       MaxErrors)
        IN
          {[tree |-> t, reports |-> r] : t \in SourceUnits, r \in Reports}
      \* The trees whose traversal is followed call by call.
      TraverseInputs ==
        LET OtherBuilderInputs ==
              LET \* One tree for each of the remaining builders that call Visit: control
                  \* statements, definitions and the rest of inline assembly.
                  StatementOf(s) == Rule("Statement", <<s>>)
                  AssemblyExpr(name) ==
                    Rule("AssemblyExpression", <<Rule("AssemblyLiteral", <<Terminal(name)>>)>>)
                  AssemblyBody == Rule("AssemblyBlock", <<Terminal("{"), Terminal("}")>>)
                  EventCall ==
                    Rule("FunctionCall",
                         <<IdentExpr("f"), Terminal("("),
                           Rule("FunctionCallArguments",
                                <<Rule("ExpressionList", <<IdentExpr("a"), Terminal(","), NumExpr("1")>>)>>),
                           Terminal(")")>>)
              IN
                {Rule("WhileStatement",
                      <<Terminal("while"), Terminal("("), IdentExpr("c"), Terminal(")"),
                        StatementOf(EmptyBlock)>>),
                 Rule("DoWhileStatement",
                      <<Terminal("do"), StatementOf(EmptyBlock), Terminal("while"), Terminal("("),
                        IdentExpr("c"), Terminal(")"), Terminal(";")>>),
                 Rule("IfStatement",
                      <<Terminal("if"), Terminal("("), IdentExpr("c"), Terminal(")"),
                        StatementOf(EmptyBlock)>>),
                 Rule("IfStatement",
                      <<Terminal("if"), Terminal("("), IdentExpr("c"), Terminal(")"),
                        StatementOf(EmptyBlock), Terminal("else"),
                        StatementOf(Rule("ReturnStatement",
                                         <<Terminal("return"), NumExpr("1"), Terminal(";")>>))>>),
                 Rule("EmitStatement", <<Terminal("emit"), EventCall, Terminal(";")>>),
                 Rule("RevertStatement", <<Terminal("revert"), EventCall, Terminal(";")>>),
                 Rule("UncheckedStatement", <<Terminal("unchecked"), OneStatementBlock>>),
                 Rule("StructDefinition",
                      <<Terminal("struct"), Ident("S"), Terminal("{"),
                        Rule("VariableDeclaration", <<ElementaryType("uint"), Ident("a")>>),
                        Terminal(";"),
                        Rule("VariableDeclaration", <<ElementaryType("bool"), Ident("b")>>),
                        Terminal(";"), Terminal("}")>>),
                 Rule("EnumDefinition",
                      <<Terminal("enum"), Ident("E"), Terminal("{"),
                        Rule("EnumValue", <<Ident("A")>>), Terminal(","),
                        Rule("EnumValue", <<Ident("B")>>), Terminal("}")>>),
                 Rule("UsingForDeclaration",
                      <<Terminal("using"), Ident("L"), Terminal("for"), ElementaryType("uint"),
                        Terminal(";")>>),
                 Rule("FileLevelConstant",
                      <<ElementaryType("uint"), Terminal("constant"), Ident("x"), Terminal("="),
                        NumExpr("1"), Terminal(";")>>),
                 Rule("TypeDefinition",
                      <<Terminal("type"), Ident("T"), Terminal("is"),
                        Rule("ElementaryTypeName", <<Terminal("uint")>>), Terminal(";")>>),
                 Rule("CustomErrorDefinition",
                      <<Terminal("error"), Ident("E"), Terminal("("),
                        ParamList(<<Param("uint", "a"), Param("bool", "b")>>), Terminal(")"),
                        Terminal(";")>>),
                 Rule("TypeNameExpression", <<Rule("ElementaryTypeName", <<Terminal("uint")>>)>>),
                 Rule("TypeNameExpression", <<BaseType("T")>>),
                 Rule("ModifierInvocation",
                      <<Ident("m"), Terminal("("),
                        Rule("ExpressionList", <<IdentExpr("a"), Terminal(","), IdentExpr("b")>>),
                        Terminal(")")>>),
                 Rule("AssemblySwitch",
                      <<Terminal("switch"), AssemblyExpr("x"),
                        Rule("AssemblyCase", <<Terminal("case"), Terminal("0"), AssemblyBody>>),
                        Rule("AssemblyCase", <<Terminal("default"), AssemblyBody>>)>>),
                 Rule("AssemblyFor",
                      <<Terminal("for"), AssemblyBody, AssemblyExpr("c"), AssemblyBody,
                        AssemblyBody>>),
                 Rule("AssemblyIf", <<Terminal("if"), AssemblyExpr("c"), AssemblyBody>>),
                 Rule("AssemblyMember", <<Ident("a"), Terminal("."), Ident("b")>>),
                 Rule("AssemblyLocalDefinition",
                      <<Terminal("let"), Terminal("x"), Terminal(":="), AssemblyExpr("y")>>),
                 Rule("AssemblyAssignment",
                      <<Terminal("x"), Terminal(":="), AssemblyExpr("y")>>),
                 Rule("AssemblyFunctionDefinition",
                      <<Terminal("function"), Terminal("f"), Terminal("("), Terminal(")"),
                        AssemblyBody>>)}
        IN
          VisitInputs \cup SourceUnits \cup OtherBuilderInputs
  IN
    {<<"mapCommasToNulls", Slice(t)>> : t \in ScanInputs}
    \cup {<<"VisitExpression", c>> : c \in ExprInputs}
    \cup {<<"Visit", c>> : c \in VisitInputs}
    \cup {<<"Parse", c>> : c \in ParseInputs}
    \cup {<<"Traverse", c>> : c \in TraverseInputs}

Init ==
  /\ pc = "call"
  /\ res = Nil
  /\ errors = Nil
  /\ visited = <<>>
  /\ \E c \in Calls :
       /\ op = c[1] /\ arg = c[2]
       /\ pending = IF c[1] = "Traverse" THEN <<[path |-> <<>>, depth |-> 1]>>
                    ELSE <<>>

CallMapCommasToNulls ==
  /\ pc = "call" /\ op = "mapCommasToNulls"
  /\ res' = mapCommasToNulls(arg.elems)
  /\ pc' = "done"
  /\ UNCHANGED <<op, arg, errors, pending, visited>>

\* The registered builder of an Expression node, called as Visit calls it.
CallVisitExpression ==
  /\ pc = "call" /\ op = "VisitExpression"
  /\ arg.kind = "Expression"
  /\ res' = Builder(arg)
  /\ pc' = "done"
  /\ UNCHANGED <<op, arg, errors, pending, visited>>

CallVisit ==
  /\ pc = "call" /\ op = "Visit"
  /\ res' = Visit(arg)
  /\ pc' = "done"
  /\ UNCHANGED <<op, arg, errors, pending, visited>>

\* CustomErrorListener.SyntaxError, called by the parser while it builds the
\* tree: the reported error is appended to the listener's Errors.
SyntaxError ==
  /\ pc = "call" /\ op = "Parse"
  /\ LET n == IF IsNil(errors) THEN 0 ELSE Len(errors.elems)
     IN /\ n < Len(arg.reports)
        /\ errors' = Slice((IF IsNil(errors) THEN <<>> ELSE errors.elems)
                           \o <<arg.reports[n + 1]>>)
  /\ UNCHANGED <<pc, op, arg, res, pending, visited>>

\* Parse after the parser has built the tree: the traversal, then the Parser
\* value.  Nothing recovers a panic of the traversal: it leaves Parse and no
\* Parser value is returned.
Parse ==
  /\ pc = "call" /\ op = "Parse"
  /\ (IF IsNil(errors) THEN 0 ELSE Len(errors.elems)) = Len(arg.reports)
  /\ \E result \in {Visit(arg.tree)} :
       res' = IF IsPanic(result) THEN result
              ELSE [Result |-> result, Errors |-> errors]
  /\ pc' = "done"
  /\ UNCHANGED <<op, arg, errors, pending, visited>>

\* One call of Visit in a traversal followed call by call: the first pending
\* call is made on the node at its path, and the calls its builder makes
\* become the next pending calls, one level deeper.  visited records the
\* paths handed to Visit so far.
TraverseVisit ==
  /\ pc = "call" /\ op = "Traverse"
  /\ pending # <<>>
  /\ \E call \in {Head(pending)} :
       \E calls \in {visits(node) : node \in {NodeAt(arg, call.path)}} :
         /\ visited' = Append(visited, call.path)
         /\ pending' = [j \in 1..Len(calls) |->
                          [path |-> call.path \o calls[j], depth |-> call.depth + 1]]
                       \o Tail(pending)
  /\ UNCHANGED <<pc, op, arg, res, errors>>

\* The outermost Visit returns once no call is pending.
TraverseReturn ==
  /\ pc = "call" /\ op = "Traverse"
  /\ pending = <<>>
  /\ pc' = "done"
  /\ UNCHANGED <<op, arg, res, errors, pending, visited>>

Next ==
  \/ CallMapCommasToNulls \/ CallVisitExpression \/ CallVisit \/ SyntaxError \/ Parse
  \/ TraverseVisit \/ TraverseReturn

Spec == Init /\ [][Next]_vars

\* A traversal is one sequential computation: a call that is pending is made,
\* and Visit returns when none is.
FairSpec == Spec /\ WF_vars(TraverseVisit) /\ WF_vars(TraverseReturn)

(***************************************************************************)
(* Properties of the sparse-list scan                                      *)
(***************************************************************************)
IsComma(c) == GetText(c) = ","

NotComma(c) == ~IsComma(c)

NotNil(v) == ~IsNil(v)

CommaCount(tree) == Cardinality({i \in 1..Len(tree) : IsComma(tree[i])})

\* No two elements stand next to each other.
Interleaved(tree) ==
  \A i \in 1..(Len(tree) - 1) : IsComma(tree[i]) \/ IsComma(tree[i + 1])

\* The position of the k-th comma; 0 for k = 0, Len(tree) + 1 past the last.
RECURSIVE CommaPos(_, _)
CommaPos(tree, k) ==
  IF k = 0 THEN 0
  ELSE LET after == {i \in (CommaPos(tree, k - 1) + 1)..Len(tree) : IsComma(tree[i])}
       IN IF after = {} THEN Len(tree) + 1
          ELSE CHOOSE i \in after : \A j \in after : i <= j

\* What stands between the (j-1)-th and the j-th comma: an element or nothing.
ExpectedSlot(tree, j) ==
  LET lo == CommaPos(tree, j - 1)
      hi == CommaPos(tree, j)
  IN IF hi = lo + 1 THEN Nil ELSE tree[lo + 1]

SparseList(tree, r) ==
  /\ IsSlice(r)
  /\ Len(r.elems) = CommaCount(tree) + 1
  /\ SelectSeq(r.elems, NotNil) = SelectSeq(tree, NotComma)
  /\ \A j \in 1..(CommaCount(tree) + 1) : r.elems[j] = ExpectedSlot(tree, j)

ScanDone == pc = "done" /\ op = "mapCommasToNulls"

\* C1 as stated: for every separator-interleaved child sequence, the empty one
\* included, mapCommasToNulls returns m+1 slots (m the number of commas), the
\* elements in source order, a slot absent exactly where no element stands
\* between two neighbouring commas or between a comma and a boundary.
C1_SparseListAlways ==
  (ScanDone /\ Interleaved(arg.elems)) => SparseList(arg.elems, res)

\* C1 amended: the sparse-list invariant holds for every non-empty
\* separator-interleaved child sequence; for the empty sequence
\* mapCommasToNulls returns an empty list (no slot), not one absent slot.
C1_SparseListNonEmpty ==
  /\ (ScanDone /\ Interleaved(arg.elems) /\ Len(arg.elems) > 0)
       => SparseList(arg.elems, res)
  /\ (ScanDone /\ Len(arg.elems) = 0) => res = Slice(<<>>)

\* The scan of  a , , b ,  has run: three commas, four slots, absent at 2 and 4.
C1_Witness ==
  /\ ScanDone
  /\ arg.elems = <<Ident("a"), Terminal(","), Terminal(","), Ident("b"),
                   Terminal(",")>>
  /\ res = Slice(<<Ident("a"), Nil, Ident("b"), Nil>>)

\* The scan expects a separator at position i when the position before it
\* emitted an element.
RECURSIVE ExpectsSeparator(_, _)
ExpectsSeparator(tree, i) ==
  i > 1 /\ ~IsComma(tree[i - 1]) /\ ~ExpectsSeparator(tree, i - 1)

\* C2: when the scan expects a separator and the position's text is not ",",
\* mapCommasToNulls aborts with a fatal error and returns no slots; in every
\* other case it reaches the end of the input and returns a slot sequence.
C2_AbortIffSeparatorMissing ==
  ScanDone =>
    IF \E i \in 1..Len(arg.elems) :
         ExpectsSeparator(arg.elems, i) /\ ~IsComma(arg.elems[i])
    THEN res = Panic("Comma expected")
    ELSE IsSlice(res)

\* The scan of  a b  has aborted at b.
C2_Witness ==
  /\ ScanDone
  /\ arg.elems = <<Ident("a"), Ident("b")>>
  /\ IsPanic(res)

(***************************************************************************)
(* Properties of the expression classification                             *)
(***************************************************************************)
ExprDone == pc = "done" /\ op = "VisitExpression"

ChildText(k) == GetText(arg.children[k + 1])

\* The visited i-th sub-expression and the visited type name of the node.
SubExpr(i) == Visit(RuleAt(arg, "Expression", i))

PrefixOperators == {"-", "+", "--", "++", "~", "after", "delete", "!"}

PostfixOperators == {"++", "--"}

\* Arithmetic, comparison, logical, bitwise and assignment operators.
BinaryOperatorFamilies ==
  {"+", "-", "*", "/", "**", "%", "<<", ">>", "&&", "||", "&", "|", "^", "<", ">",
   "<=", ">=", "==", "!=", "=", "|=", "^=", "&=", "<<=", ">>=", "+=", "-=", "*=",
   "/=", "%="}

\* C3: a 2-child expression is classified by first match: child 0 "new" gives
\* NewExpression; else child 0 a prefix operator gives UnaryOperation with
\* IsPrefix = TRUE and Operator = child 0; else child 1 "++" or "--" gives
\* UnaryOperation with IsPrefix = FALSE and Operator = child 1.  A prefix
\* operator at child 0 wins over a postfix operator at child 1.  (The node is
\* built unless visiting its operand or type name aborts.)
C3_TwoChildren ==
  (ExprDone /\ Len(arg.children) = 2) =>
    LET type == Visit(RuleOf(arg, "TypeName"))
    IN IF ChildText(0) = "new"
       THEN res = IF IsPanic(type) THEN type
                  ELSE [Type |-> "NewExpression", TypeName |-> type]
       ELSE IF ChildText(0) \in PrefixOperators
       THEN res = IF IsPanic(SubExpr(0)) THEN SubExpr(0)
                  ELSE [Type |-> "UnaryOperation", Operator |-> ChildText(0),
                        SubExpression |-> SubExpr(0), IsPrefix |-> TRUE]
       ELSE IF ChildText(1) \in PostfixOperators
       THEN res = IF IsPanic(SubExpr(0)) THEN SubExpr(0)
                  ELSE [Type |-> "UnaryOperation", Operator |-> ChildText(1),
                        SubExpression |-> SubExpr(0), IsPrefix |-> FALSE]
       ELSE TRUE

\* A node whose child 0 reads "-" and whose child 1 reads "++" was classified
\* as the prefix operation.
C3_Witness ==
  /\ ExprDone
  /\ arg.children = <<Terminal("-"), TokenExpr("++")>>
  /\ IsNode(res) /\ res.Type = "UnaryOperation" /\ res.IsPrefix
  /\ res.Operator = "-"

\* C4: a 3-child expression is classified by first match: "(" x ")" gives a
\* TupleExpression with IsArray = FALSE and the visited child 1 as its only
\* component, whatever child 1 is; else child 1 "." gives MemberAccess; else
\* child 1 a binary operator gives BinaryOperation with Operator = child 1,
\* Left and Right the first and second sub-expression.
C4_ThreeChildren ==
  (ExprDone /\ Len(arg.children) = 3) =>
    LET inner == Visit(arg.children[2])
        id == RuleOf(arg, "Identifier")
    IN IF ChildText(0) = "(" /\ ChildText(2) = ")"
       THEN res = IF IsPanic(inner) THEN inner
                  ELSE [Type |-> "TupleExpression", IsArray |-> FALSE,
                        Components |-> Slice(<<inner>>)]
       ELSE IF ChildText(1) = "."
       THEN IF IsPanic(SubExpr(0)) \/ IsNil(id) THEN IsPanic(res)
            ELSE res = [Type |-> "MemberAccess", Expression |-> SubExpr(0),
                        MemberName |-> GetText(id)]
       ELSE IF ChildText(1) \in BinaryOperatorFamilies
       THEN IF IsPanic(SubExpr(0)) \/ IsPanic(SubExpr(1)) THEN IsPanic(res)
            ELSE res = [Type |-> "BinaryOperation", Operator |-> ChildText(1),
                        Left |-> SubExpr(0), Right |-> SubExpr(1)]
       ELSE TRUE

\* ( . ) was classified as a tuple although child 1 reads ".".
C4_Witness ==
  /\ ExprDone
  /\ arg.children = <<Terminal("("), Terminal("."), Terminal(")")>>
  /\ IsNode(res) /\ res.Type = "TupleExpression" /\ ~res.IsArray
  /\ Len(res.Components.elems) = 1

\* C5: the binary-operator set holds only arithmetic, comparison, logical,
\* bitwise and assignment operators: a BinaryOperation carries one of them, and
\* a 3-child expression that is not parenthesised and whose child 1 is neither
\* "." nor such an operator is fatal.
C5_OnlyOperatorsAreBinary ==
  (ExprDone /\ Len(arg.children) = 3) =>
    /\ (IsNode(res) /\ res.Type = "BinaryOperation")
         => res.Operator \in BinaryOperatorFamilies
    /\ (/\ ~(ChildText(0) = "(" /\ ChildText(2) = ")")
        /\ ChildText(1) # "."
        /\ ChildText(1) \notin BinaryOperatorFamilies)
         => IsPanic(res)

(***************************************************************************)
(* Properties of calls, index ranges and unrecognized shapes               *)
(***************************************************************************)
Elements(s) == {s[k] : k \in 1..Len(s)}

\* The argument lists of a call site.
ArgumentsOf(ctx) == RuleOf(ctx, "FunctionCallArguments")

PositionalOf(ctx) ==
  IF IsNil(ArgumentsOf(ctx)) THEN Nil ELSE RuleOf(ArgumentsOf(ctx), "ExpressionList")

NamedOf(ctx) ==
  IF IsNil(ArgumentsOf(ctx)) THEN Nil ELSE RuleOf(ArgumentsOf(ctx), "NameValueList")

\* Building the call aborts: no argument context, or a visit of the callee,
\* of an argument or of a name aborts.
CallAborts(ctx) ==
  \/ IsNil(ArgumentsOf(ctx))
  \/ IsPanic(Visit(RuleAt(ctx, "Expression", 0)))
  \/ /\ ~IsNil(PositionalOf(ctx))
     /\ \E e \in Elements(AllRule(PositionalOf(ctx), "Expression")) : IsPanic(Visit(e))
  \/ /\ IsNil(PositionalOf(ctx)) /\ ~IsNil(NamedOf(ctx))
     /\ \E p \in Elements(AllRule(NamedOf(ctx), "NameValue")) :
          \/ IsNil(RuleOf(p, "Identifier"))
          \/ IsPanic(Visit(RuleOf(p, "Expression")))

\* C6: a 4-child expression is classified by first match: child 1 "(" and
\* child 3 ")" gives FunctionCall; else child 1 "[" and child 3 "]" gives
\* IndexRangeAccess with both bounds absent when child 2 is ":" and IndexAccess
\* with Index the second sub-expression otherwise; else child 1 "{" and child 3
\* "}" gives NameValueExpression whose Arguments is the visited NameValueList.
\* (The node is built unless a visit of one of its parts aborts.)
C6_FourChildren ==
  (ExprDone /\ Len(arg.children) = 4) =>
    LET list == Visit(RuleOf(arg, "NameValueList"))
    IN IF ChildText(1) = "(" /\ ChildText(3) = ")"
       THEN IF CallAborts(arg) THEN IsPanic(res)
            ELSE /\ IsNode(res) /\ res.Type = "FunctionCall"
                 /\ res.Expression = SubExpr(0)
       ELSE IF ChildText(1) = "[" /\ ChildText(3) = "]"
       THEN IF ChildText(2) = ":"
            THEN IF IsPanic(SubExpr(0)) THEN IsPanic(res)
                 ELSE res = [Type |-> "IndexRangeAccess", Base |-> SubExpr(0),
                             IndexStart |-> Nil, IndexEnd |-> Nil]
            ELSE IF IsPanic(SubExpr(0)) \/ IsPanic(SubExpr(1)) THEN IsPanic(res)
                 ELSE res = [Type |-> "IndexAccess", Base |-> SubExpr(0),
                             Index |-> SubExpr(1)]
       ELSE IF ChildText(1) = "{" /\ ChildText(3) = "}"
       THEN IF IsPanic(SubExpr(0)) \/ IsPanic(list) THEN IsPanic(res)
            ELSE res = [Type |-> "NameValueExpression", Expression |-> SubExpr(0),
                        Arguments |-> list]
       ELSE TRUE

\* f{value: 10}(a, 1): a FunctionCall whose Expression is the
\* NameValueExpression around callee f and whose Arguments are the two
\* positional arguments.
C6_Witness ==
  /\ ExprDone /\ Len(arg.children) = 4
  /\ arg.children[1] = ConfigCall
  /\ IsNode(res) /\ res.Type = "FunctionCall"
  /\ res.Expression.Type = "NameValueExpression"
  /\ res.Expression.Expression = [Type |-> "Identifier", Name |-> "f"]
  /\ res.Expression.Arguments.Names = Slice(<<"value">>)
  /\ res.Arguments = Slice(<<[Type |-> "Identifier", Name |-> "a"],
                             [Type |-> "NumberLiteral", Number |-> "1",
                              SubDenomination |-> Nil]>>)
  /\ IsNil(res.Names)

IsExpression(c) == c.kind = "Expression"

\* The result is the IndexRangeAccess over base b with start bound s and end
\* bound e (Nil for a bound that is not written), unless a visit aborts.
RangeOver(b, s, e) ==
  LET vb == Visit(b)
      vs == IF IsNil(s) THEN Nil ELSE Visit(s)
      ve == IF IsNil(e) THEN Nil ELSE Visit(e)
  IN IF IsPanic(vb) \/ IsPanic(vs) \/ IsPanic(ve) THEN IsPanic(res)
     ELSE res = [Type |-> "IndexRangeAccess", Base |-> vb,
                 IndexStart |-> vs, IndexEnd |-> ve]

\* C7: a[:], a[x:], a[:y] and a[x:y] give an IndexRangeAccess whose Base is the
\* visited child 0, whose IndexStart is the start bound's node when one is
\* written and absent otherwise, and whose IndexEnd is the end bound's node
\* when one is written and absent otherwise.  A 5-child node with child 1 "?"
\* and child 3 ":" is a Conditional.
C7_IndexRanges ==
  ExprDone =>
    LET n == Len(arg.children)
        ch == arg.children
    IN /\ (/\ n = 4 /\ IsExpression(ch[1]) /\ ChildText(1) = "["
           /\ ChildText(2) = ":" /\ ChildText(3) = "]")
            => RangeOver(ch[1], Nil, Nil)
       /\ (/\ n = 5 /\ IsExpression(ch[1]) /\ ChildText(1) = "["
           /\ IsExpression(ch[3]) /\ ChildText(3) = ":" /\ ChildText(4) = "]")
            => RangeOver(ch[1], ch[3], Nil)
       /\ (/\ n = 5 /\ IsExpression(ch[1]) /\ ChildText(1) = "["
           /\ ChildText(2) = ":" /\ IsExpression(ch[4]) /\ ChildText(4) = "]")
            => RangeOver(ch[1], Nil, ch[4])
       /\ (/\ n = 6 /\ IsExpression(ch[1]) /\ ChildText(1) = "["
           /\ IsExpression(ch[3]) /\ ChildText(3) = ":"
           /\ IsExpression(ch[5]) /\ ChildText(5) = "]")
            => RangeOver(ch[1], ch[3], ch[5])
       /\ (n = 5 /\ ChildText(1) = "?" /\ ChildText(3) = ":")
            => IF IsPanic(SubExpr(0)) \/ IsPanic(SubExpr(1)) \/ IsPanic(SubExpr(2))
               THEN IsPanic(res)
               ELSE res = [Type |-> "Conditional", Condition |-> SubExpr(0),
                           TrueExpression |-> SubExpr(1),
                           FalseExpression |-> SubExpr(2)]

\* a[3:]: the start bound is stored in IndexStart and IndexEnd is absent.
C7_Witness ==
  /\ ExprDone
  /\ arg.children = <<IdentExpr("a"), Terminal("["), NumExpr("3"), Terminal(":"),
                      Terminal("]")>>
  /\ IsNode(res) /\ res.Type = "IndexRangeAccess"
  /\ res.Base = [Type |-> "Identifier", Name |-> "a"]
  /\ res.IndexStart = [Type |-> "NumberLiteral", Number |-> "3",
                        SubDenomination |-> Nil]
  /\ IsNil(res.IndexEnd)

\* The node matches a row of the classification table for its child count.
MatchesRow(ctx) ==
  LET n == Len(ctx.children)
      t(k) == GetText(ctx.children[k + 1])
  IN CASE n = 1 -> TRUE
       [] n = 2 -> t(0) = "new" \/ t(0) \in PrefixOperators \/ t(1) \in PostfixOperators
       [] n = 3 -> \/ t(0) = "(" /\ t(2) = ")"
                   \/ t(1) = "."
                   \/ t(1) \in BinaryOperatorFamilies
       [] n = 4 -> \/ t(1) = "(" /\ t(3) = ")"
                   \/ t(1) = "[" /\ t(3) = "]"
                   \/ t(1) = "{" /\ t(3) = "}"
       [] n = 5 -> \/ t(1) = "?" /\ t(3) = ":"
                   \/ t(1) = "[" /\ t(2) = ":" /\ t(4) = "]"
                   \/ t(1) = "[" /\ t(3) = ":" /\ t(4) = "]"
       [] n = 6 -> t(1) = "[" /\ t(3) = ":" /\ t(5) = "]"
       [] OTHER -> FALSE

\* The node kinds the table gives to a child count.
KindsOf(n) ==
  CASE n = 2 -> {"NewExpression", "UnaryOperation"}
    [] n = 3 -> {"TupleExpression", "MemberAccess", "BinaryOperation"}
    [] n = 4 -> {"FunctionCall", "IndexRangeAccess", "IndexAccess", "NameValueExpression"}
    [] n = 5 -> {"Conditional", "IndexRangeAccess"}
    [] n = 6 -> {"IndexRangeAccess"}
    [] OTHER -> {}

\* C8: an expression node that matches no row of the classification table
\* (0 or at least 7 children, or 2 to 6 children whose tokens match no row of
\* that count) aborts; a node with 2 to 6 children never yields absence or a
\* node kind of another child count.
C8_UnmatchedShapeAborts ==
  ExprDone =>
    /\ ~MatchesRow(arg) => IsPanic(res)
    /\ Len(arg.children) \in 2..6 =>
         \/ IsPanic(res)
         \/ IsNode(res) /\ res.Type \in KindsOf(Len(arg.children))

CallDone ==
  /\ pc = "done"
  /\ \/ op = "VisitExpression" /\ Len(arg.children) = 4
     \/ op = "Visit" /\ arg.kind = "FunctionCall"
  /\ IsNode(res) /\ res.Type = "FunctionCall"

Entries(v) == IF IsNil(v) THEN <<>> ELSE v.elems

\* C9: a FunctionCall node takes its arguments from the positional list or
\* from the name/value list, never both.  With the positional list, Names and
\* Identifiers hold no entries and Arguments are the visited expressions in
\* order; with the name/value list, Names, Identifiers and Arguments have the
\* length of the list and entry i holds the i-th pair's name, the Identifier
\* node of that name, and the pair's visited value.
C9_OneArgumentSource ==
  CallDone =>
    LET el == PositionalOf(arg)
        nvl == NamedOf(arg)
        exprs == IF IsNil(el) THEN <<>> ELSE AllRule(el, "Expression")
        pairs == IF IsNil(nvl) THEN <<>> ELSE AllRule(nvl, "NameValue")
        names == Entries(res.Names)
        identifiers == Entries(res.Identifiers)
        arguments == Entries(res.Arguments)
    IN IF ~IsNil(el)
       THEN /\ Len(names) = 0 /\ Len(identifiers) = 0
            /\ Len(arguments) = Len(exprs)
            /\ \A k \in 1..Len(exprs) : arguments[k] = Visit(exprs[k])
       ELSE /\ Len(names) = Len(pairs)
            /\ Len(identifiers) = Len(pairs)
            /\ Len(arguments) = Len(pairs)
            /\ \A k \in 1..Len(pairs) :
                 LET name == GetText(RuleOf(pairs[k], "Identifier"))
                 IN /\ names[k] = name
                    /\ identifiers[k] = [Type |-> "Identifier", Name |-> name]
                    /\ arguments[k] = Visit(RuleOf(pairs[k], "Expression"))

\* A call with two named arguments was built by the FunctionCall production.
C9_Witness ==
  /\ CallDone /\ op = "Visit"
  /\ IsNil(PositionalOf(arg)) /\ ~IsNil(NamedOf(arg))
  /\ Len(AllRule(NamedOf(arg), "NameValue")) = 2
  /\ Len(res.Names.elems) = 2 /\ Len(res.Identifiers.elems) = 2
  /\ Len(res.Arguments.elems) = 2
  /\ res.Names.elems[1] # res.Names.elems[2]

CatchDone == pc = "done" /\ op = "Visit" /\ arg.kind = "CatchClause"

TryDone == pc = "done" /\ op = "Visit" /\ arg.kind = "TryStatement"

\* C10: a CatchClause node has Kind "", "Error" or "Panic"; Kind is "" exactly
\* when the clause has no identifier; IsReasonType is true exactly when Kind is
\* "Error"; a clause with any other identifier aborts.  A TryStatement's
\* CatchClause list holds the node of each catch clause, in source order.
C10_CatchClauses ==
  /\ CatchDone =>
       LET id == RuleOf(arg, "Identifier")
       IN IF ~IsNil(id) /\ GetText(id) \notin {"Error", "Panic"}
          THEN IsPanic(res)
          ELSE IsNode(res) =>
                 /\ res.Type = "CatchClause"
                 /\ res.Kind \in {"", "Error", "Panic"}
                 /\ res.Kind = "" <=> IsNil(id)
                 /\ res.Kind = (IF IsNil(id) THEN "" ELSE GetText(id))
                 /\ res.IsReasonType <=> res.Kind = "Error"
  /\ TryDone =>
       LET clauses == AllRule(arg, "CatchClause")
       IN IF \E c \in Elements(clauses) : IsPanic(Visit(c)) THEN IsPanic(res)
          ELSE IsNode(res) =>
                 /\ Len(res.CatchClause.elems) = Len(clauses)
                 /\ \A k \in 1..Len(clauses) :
                      res.CatchClause.elems[k] = Visit(clauses[k])

\* A try statement with an Error clause, a Panic clause and a clause without
\* identifier, in this order.
C10_Witness ==
  /\ TryDone /\ IsNode(res)
  /\ Len(res.CatchClause.elems) = 3
  /\ res.CatchClause.elems[1].Kind = "Error" /\ res.CatchClause.elems[1].IsReasonType
  /\ res.CatchClause.elems[2].Kind = "Panic" /\ ~res.CatchClause.elems[2].IsReasonType
  /\ res.CatchClause.elems[3].Kind = "" /\ ~res.CatchClause.elems[3].IsReasonType

(***************************************************************************)
(* Properties of statements and declarations                               *)
(***************************************************************************)
ForDone == pc = "done" /\ op = "Visit" /\ arg.kind = "ForStatement"

\* C11: in a ForStatement the three clauses are optional independently of one
\* another: LoopExpression is always an ExpressionStatement node whose
\* Expression is absent exactly when no loop clause is written (and else the
\* visited loop expression); ConditionExpression is absent exactly when no
\* condition is written and else the bare visited condition expression;
\* InitExpression is absent exactly when no init clause is written.  (The node
\* is built unless a visit of a clause or of the body aborts.)
C11_ForClauses ==
  ForDone =>
    LET ss == RuleOf(arg, "SimpleStatement")
        es == RuleOf(arg, "ExpressionStatement")
        ex == RuleOf(arg, "Expression")
        init == IF IsNil(ss) THEN Nil ELSE Visit(ss)
        cond == IF IsNil(es) THEN Nil ELSE Visit(RuleOf(es, "Expression"))
        loop == IF IsNil(ex) THEN Nil ELSE Visit(ex)
        body == Visit(RuleOf(arg, "Statement"))
    IN IF IsPanic(init) \/ IsPanic(cond) \/ IsPanic(loop) \/ IsPanic(body)
       THEN IsPanic(res)
       ELSE /\ IsNode(res) /\ res.Type = "ForStatement"
            /\ IsNode(res.LoopExpression)
            /\ res.LoopExpression.Type = "ExpressionStatement"
            /\ res.LoopExpression.Expression = loop
            /\ IsNil(res.LoopExpression.Expression) <=> IsNil(ex)
            /\ res.ConditionExpression = cond
            /\ IsNil(res.ConditionExpression) <=> IsNil(es)
            /\ res.InitExpression = init
            /\ IsNil(res.InitExpression) <=> IsNil(ss)

\* for (; c; ) {}: only the condition is written, and the loop clause is an
\* ExpressionStatement without expression.
C11_Witness ==
  /\ ForDone /\ IsNode(res)
  /\ IsNil(RuleOf(arg, "SimpleStatement")) /\ IsNil(RuleOf(arg, "Expression"))
  /\ res.ConditionExpression = [Type |-> "Identifier", Name |-> "c"]
  /\ IsNil(res.InitExpression)
  /\ res.LoopExpression = [Type |-> "ExpressionStatement", Expression |-> Nil]

FunctionDone == pc = "done" /\ op = "Visit" /\ arg.kind = "FunctionDefinition"

StateVariableDone ==
  pc = "done" /\ op = "Visit" /\ arg.kind = "StateVariableDeclaration"

FunctionTypeDone == pc = "done" /\ op = "Visit" /\ arg.kind = "FunctionTypeName"

ModifierDone == pc = "done" /\ op = "Visit" /\ arg.kind = "ModifierDefinition"

\* The texts of the tokens written directly in a context.
TokensOf(ctx) == {c.text : c \in {d \in Elements(ctx.children) : IsTerminal(d)}}

\* The first candidate of the ordered list that is among the tokens.
FirstPresent(candidates, tokens) ==
  IF \E k \in 1..Len(candidates) : candidates[k] \in tokens
  THEN candidates[CHOOSE k \in 1..Len(candidates) :
                    /\ candidates[k] \in tokens
                    /\ \A j \in 1..(k - 1) : candidates[j] \notin tokens]
  ELSE "default"

DescriptorText == GetText(RuleOf(arg, "FunctionDescriptor").children[1])

\* C12: visibility is the first keyword present from an ordered candidate
\* list, whatever the order in which the keywords are written: external,
\* internal, public, private for a function introduced by "function";
\* internal, public, private for a state variable; internal, external for a
\* function type; "default" when no candidate is written.
C12_VisibilityByCandidateOrder ==
  /\ (FunctionDone /\ IsNode(res) /\ DescriptorText = "function") =>
       res.Visibility =
         FirstPresent(<<"external", "internal", "public", "private">>,
                      TokensOf(RuleOf(arg, "ModifierList")))
  /\ (StateVariableDone /\ IsNode(res)) =>
       res.Variables.elems[1].Visibility =
         FirstPresent(<<"internal", "public", "private">>, TokensOf(arg))
  /\ (FunctionTypeDone /\ IsNode(res)) =>
       res.Visibility = FirstPresent(<<"internal", "external">>, TokensOf(arg))

\* function foo() private external {}: private is written first, external is
\* the visibility.
C12_Witness ==
  /\ FunctionDone /\ IsNode(res) /\ DescriptorText = "function"
  /\ RuleOf(arg, "ModifierList").children = <<Terminal("private"), Terminal("external")>>
  /\ res.Visibility = "external"

\* C13: the function descriptor's first token routes the definition:
\* "constructor" sets IsConstructor and gives a visibility among internal,
\* public, default; "fallback" sets IsFallback and visibility external;
\* "receive" sets IsReceiveEther and visibility external; "function" reads the
\* optional name and sets IsFallback exactly when the name is empty.  Name is
\* empty for constructor, fallback and receive.
C13_DescriptorRouting ==
  (FunctionDone /\ IsNode(res)) =>
    LET ident == RuleOf(RuleOf(arg, "FunctionDescriptor"), "Identifier")
    IN CASE DescriptorText = "constructor" ->
              /\ res.IsConstructor /\ res.Name = ""
              /\ res.Visibility \in {"internal", "public", "default"}
         [] DescriptorText = "fallback" ->
              res.IsFallback /\ res.Visibility = "external" /\ res.Name = ""
         [] DescriptorText = "receive" ->
              res.IsReceiveEther /\ res.Visibility = "external" /\ res.Name = ""
         [] DescriptorText = "function" ->
              /\ res.Name = (IF IsNil(ident) THEN "" ELSE GetText(ident))
              /\ res.IsFallback <=> res.Name = ""
         [] OTHER -> TRUE

\* fallback() public private {}: the written keywords are ignored.
C13_Witness ==
  /\ FunctionDone /\ IsNode(res) /\ DescriptorText = "fallback"
  /\ RuleOf(arg, "ModifierList").children = <<Terminal("public"), Terminal("private")>>
  /\ res.IsFallback /\ res.Visibility = "external" /\ res.Name = ""

\* The Override list the claim describes for the specifiers written in host:
\* one visited base type per base type of the specifier, none without one.
ExpectedOverride(host) ==
  LET spec == AllRule(host, "OverrideSpecifier")
      bases == IF Len(spec) = 0 THEN <<>> ELSE AllRule(spec[1], "UserDefinedTypeName")
  IN Slice([k \in 1..Len(bases) |-> Visit(bases[k])])

\* C14: for functions, modifiers and state variables alike, Override is a list
\* and never the absence marker: empty without override specifier and with a
\* specifier that names no base type, else one UserDefinedTypeName per base
\* type in source order.
C14_OverrideIsAlwaysAList ==
  /\ (FunctionDone /\ IsNode(res)) =>
       res.Override = ExpectedOverride(RuleOf(arg, "ModifierList"))
  /\ (ModifierDone /\ IsNode(res)) => res.Override = ExpectedOverride(arg)
  /\ (StateVariableDone /\ IsNode(res)) =>
       res.Variables.elems[1].Override = ExpectedOverride(arg)

ImportDone == pc = "done" /\ op = "Visit" /\ arg.kind = "ImportDirective"

IdentifierNode(id) == [Type |-> "Identifier", Name |-> GetText(id)]

\* The identifier written after "as" directly in the directive, Nil if none.
WrittenAlias(ctx) ==
  LET at == {k \in 2..Len(ctx.children) :
               /\ ctx.children[k].kind = "Identifier"
               /\ ctx.children[k - 1] = Terminal("as")}
  IN IF at = {} THEN Nil ELSE ctx.children[CHOOSE k \in at : TRUE]

VisitDone == pc = "done" /\ op = "Visit"

\* The productions that wrap one alternative and get no tag of their own.
SuppressionList ==
  {"ContractPart", "Statement", "SimpleStatement", "Expression", "TypeName",
   "MappingKey", "PrimaryExpression", "Parameter", "FunctionTypeParameter"}

\* C16: Visit returns absence for a raw token; for a production whose builder
\* returns no node it returns absence; for a production outside the
\* suppression list the returned node is the builder's node tagged with the
\* production name; for a production in the suppression list the returned
\* node is exactly the builder's node.
C16_DispatchRule ==
  VisitDone =>
    IF IsTerminal(arg) THEN IsNil(res)
    ELSE arg.kind \in funcMap =>
           LET output == Builder(arg)
           IN /\ IsNil(output) => IsNil(res)
              /\ IsNode(output) =>
                   IF arg.kind \in SuppressionList THEN res = output
                   ELSE res.Type = arg.kind /\ res = [output EXCEPT !.Type = arg.kind]

\* An Expression root came back with the tag its builder gave the node.
C16_Witness ==
  /\ VisitDone /\ arg.kind = "Expression" /\ Len(arg.children) = 3
  /\ IsNode(res) /\ res.Type = "BinaryOperation"

\* C17: no node's tag is set more than once: the node a non-suppressed
\* builder returns has no tag yet when Visit tags it, and the result of a
\* suppressed production carries the tag of the node it delegated to.
C17_TagSetOnce ==
  (VisitDone /\ ~IsTerminal(arg) /\ arg.kind \in funcMap) =>
    LET output == Builder(arg)
    IN IsNode(output) =>
         IF arg.kind \in SuppressionList THEN res.Type = output.Type
         ELSE output.Type = ""

\* C18: every registered builder returns a node or absence, so Visit never
\* fails when it converts a builder's output to a node.
C18_BuildersReturnNodes ==
  (VisitDone /\ ~IsTerminal(arg) /\ arg.kind \in funcMap) =>
    LET output == Builder(arg)
    IN /\ IsPanic(output) \/ IsNil(output) \/ IsNode(output)
       /\ res # Panic("interface conversion: not INode")

\* C19: every production that a builder passes to Visit has a registered
\* builder: the traversal of a contract definition or of an inheritance
\* specifier, with or without arguments, never aborts for a missing builder.
C19_EveryProductionHasABuilder ==
  (VisitDone /\ arg \in ContractInputs \cup InheritanceInputs) =>
    res # Panic("BUG: visit not found")

ParseDone == pc = "done" /\ op = "Parse"

\* C20: in every execution of Parse the caller obtains the list of the syntax
\* errors the parser reported, in report order; it obtains an AST only if the
\* traversal did not abort, and an abort is distinguishable from a result.
C20_ErrorsAlwaysReturned ==
  ParseDone =>
    /\ "Errors" \in DOMAIN res
    /\ (IF IsNil(res.Errors) THEN <<>> ELSE res.Errors.elems) = arg.reports
    /\ "Result" \in DOMAIN res => ~IsPanic(Visit(arg.tree))

LiteralDone == VisitDone /\ arg \in LiteralInputs

\* The fragments of the literal of the visited tree, in source order.
FragmentsOf(ctx) ==
  IF ctx \in QuotedImports THEN RuleOf(ctx, "ImportPath").children
  ELSE GetChild(GetChild(ctx, 0), 0).children

\* The literal of the result: the path literal of an import, else the result.
LiteralOf(node) == IF "PathLiteral" \in DOMAIN node THEN node.PathLiteral ELSE node

\* A fragment's text without its prefix and without the two quote characters
\* around it.
Unquoted(text) ==
  LET t == TrimPrefix(TrimPrefix(text, "hex"), "unicode")
  IN SubSeq(t, 2, Len(t) - 1)

\* C21: for every string, hex and import-path literal, Value is the
\* concatenation of Parts, Parts has one entry per fragment, IsUnicode of a
\* string literal flags exactly the fragments with the unicode prefix, and
\* each part is the fragment without its prefix and its enclosing quotes, for
\* both quote styles.
C21_LiteralRoundTrip ==
  LiteralDone =>
    LET lit == LiteralOf(res)
        fragments == FragmentsOf(arg)
    IN /\ IsNode(res)
       /\ lit.Value = Join(lit.Parts.elems)
       /\ Len(lit.Parts.elems) = Len(fragments)
       /\ lit.Type = "StringLiteral" /\ arg \notin QuotedImports =>
            /\ Len(lit.IsUnicode.elems) = Len(fragments)
            /\ \A i \in 1..Len(fragments) :
                 lit.IsUnicode.elems[i] = HasPrefix(fragments[i].text, "unicode")
       /\ \A i \in 1..Len(fragments) :
            lit.Parts.elems[i] = Unquoted(fragments[i].text)

ContractDone ==
  VisitDone /\ arg \in ContractInputs \cup AbstractContracts /\ IsNode(res)

\* The keyword that introduces a contract definition: the token written right
\* before the name.
IntroducingKeyword(ctx) ==
  LET k == CHOOSE i \in 1..Len(ctx.children) : ctx.children[i].kind = "Identifier"
  IN ctx.children[k - 1].text

\* C22: Kind of a contract definition is "contract", "interface" or
\* "library" and is the keyword that introduces the definition, whatever
\* precedes it; SubNodes and BaseContracts are present lists with one entry
\* per contract part and per inheritance specifier, in source order.
C22_KindAndLists ==
  ContractDone =>
    LET parts == AllRule(arg, "ContractPart")
        bases == AllRule(arg, "InheritanceSpecifier")
    IN /\ res.Kind \in {"contract", "interface", "library"}
       /\ res.Kind = IntroducingKeyword(arg)
       /\ ~IsNil(res.SubNodes) /\ ~IsNil(res.BaseContracts)
       /\ res.SubNodes.elems = [k \in 1..Len(parts) |-> Visit(parts[k])]
       /\ res.BaseContracts.elems = [k \in 1..Len(bases) |-> Visit(bases[k])]

TypeNameDone == VisitDone /\ arg \in TypeNameInputs

\* The child of a type name that is a type of one of the four kinds.
TypeChildren(ctx) ==
  LET isType(c) == c.kind \in {"ElementaryTypeName", "UserDefinedTypeName",
                               "Mapping", "FunctionTypeName"}
  IN SelectSeq(ctx.children, isType)

\* C23: a type name with more than two children is an ArrayTypeName whose
\* Length is present exactly for four children (the visited length
\* expression; four children without an expression abort); one with two
\* children is an ElementaryTypeName with Name and StateMutability from the
\* two children; otherwise the result is the visited elementary,
\* user-defined, mapping or function-type child, and without such a child
\* the traversal aborts.
C23_TypeNameByChildCount ==
  TypeNameDone =>
    LET n == Len(arg.children)
        exprs == AllRule(arg, "Expression")
    IN /\ n > 2 =>
            IF n = 4 /\ Len(exprs) = 0 THEN IsPanic(res)
            ELSE /\ IsNode(res) /\ res.Type = "ArrayTypeName"
                 /\ res.BaseTypeName = Visit(arg.children[1])
                 /\ ~IsNil(res.Length) <=> n = 4
                 /\ n = 4 => res.Length = Visit(exprs[1])
       /\ n = 2 =>
            res = [Type |-> "ElementaryTypeName", Name |-> arg.children[1].text,
                   StateMutability |-> arg.children[2].text]
       /\ n < 2 =>
            IF Len(TypeChildren(arg)) = 0 THEN IsPanic(res)
            ELSE res = Visit(TypeChildren(arg)[1])

\* An array type of fixed length of an array type was visited.
C23_Witness ==
  /\ TypeNameDone /\ IsNode(res) /\ res.Type = "ArrayTypeName"
  /\ res.Length = [Type |-> "NumberLiteral", Number |-> "1", SubDenomination |-> Nil]
  /\ res.BaseTypeName.Type = "ArrayTypeName" /\ IsNil(res.BaseTypeName.Length)

\* The list of a multi-variable declaration statement, Nil for a single one.
DeclaredList(ctx) ==
  IF ~IsNil(RuleOf(ctx, "IdentifierList")) THEN RuleOf(ctx, "IdentifierList")
  ELSE RuleOf(ctx, "VariableDeclarationList")

\* What is written between the brackets of the list.
Written(list) ==
  IF list.kind = "IdentifierList" THEN SubSeq(list.children, 2, Len(list.children) - 1)
  ELSE list.children

MultiDone ==
  VisitDone /\ arg \in VariableDeclarationInputs /\ ~IsNil(DeclaredList(arg))

\* The identifier of an element of the list.
DeclaredName(e) == IF e.kind = "Identifier" THEN e ELSE RuleOf(e, "Identifier")

\* v is a VariableDeclaration built from the element e.
BuiltFrom(v, e) ==
  /\ IsNode(v) /\ v.Type = "VariableDeclaration"
  /\ v.Name = GetText(DeclaredName(e))
  /\ v.Identifier = IdentifierNode(DeclaredName(e))
  /\ v.TypeName = IF e.kind = "Identifier" THEN Nil ELSE Visit(RuleOf(e, "TypeName"))

\* C24: Variables of a multi-variable declaration statement has one slot per
\* position of the sparse list (none for an empty list), absent at every gap;
\* the i-th present slot is a VariableDeclaration built from the i-th
\* identifier or declaration in source order, and there are as many present
\* slots as identifiers or declarations, so no read goes past their end.
C24_SparseVariables ==
  MultiDone =>
    LET tree == Written(DeclaredList(arg))
        elements == SelectSeq(tree, NotComma)
    IN /\ IsNode(res) /\ IsSlice(res.Variables)
       /\ LET present == SelectSeq(res.Variables.elems, NotNil)
          IN /\ Len(res.Variables.elems)
                  = IF Len(tree) = 0 THEN 0 ELSE CommaCount(tree) + 1
             /\ \A j \in 1..Len(res.Variables.elems) :
                  IsNil(res.Variables.elems[j]) <=> IsNil(ExpectedSlot(tree, j))
             /\ Len(present) = Len(elements)
             /\ Len(present) = Len(AllRule(DeclaredList(arg), "Identifier"))
                                 + Len(AllRule(DeclaredList(arg), "VariableDeclaration"))
             /\ \A i \in 1..Len(present) : BuiltFrom(present[i], elements[i])

\* var (a,,b) = 0; was visited: three slots, the second absent.
C24_Witness ==
  /\ MultiDone /\ IsNode(res)
  /\ Written(DeclaredList(arg)) = <<Ident("a"), Terminal(","), Terminal(","), Ident("b")>>
  /\ Len(res.Variables.elems) = 3 /\ IsNil(res.Variables.elems[2])
  /\ res.Variables.elems[3].Name = "b"
  /\ res.InitialValue = [Type |-> "NumberLiteral", Number |-> "0", SubDenomination |-> Nil]

\* Parse returned the tree of a source unit.
UnitDone == ParseDone /\ "Result" \in DOMAIN res

\* C25: Children of a SourceUnit has exactly one slot per direct child of the
\* source unit, in source order; a slot is absent exactly when the child is a
\* raw token or its builder returned nothing, so there can be more slots than
\* top-level declarations.
C25_OneSlotPerChild ==
  UnitDone =>
    LET childs == arg.tree.children
        slots == res.Result.Children.elems
    IN /\ res.Result.Type = "SourceUnit"
       /\ Len(slots) = Len(childs)
       /\ \A k \in 1..Len(childs) :
            /\ slots[k] = Visit(childs[k])
            /\ IsNil(slots[k]) <=> (IsTerminal(childs[k]) \/ IsNil(Builder(childs[k])))

\* A source unit of an import and a contract was parsed: three slots, the
\* last one, of the end-of-input token, absent.
C25_Witness ==
  /\ UnitDone
  /\ Len(arg.tree.children) = 3
  /\ Len(res.Result.Children.elems) = 3
  /\ res.Result.Children.elems[1].Type = "ImportDirective"
  /\ res.Result.Children.elems[2].Type = "ContractDefinition"
  /\ IsNil(res.Result.Children.elems[3])

\* The FunctionCall production was visited and gave a node.
ProductionCallDone ==
  VisitDone /\ arg \in FunctionCallInputs /\ Len(arg.children) = 4 /\ IsNode(res)

\* The same call written as an expression of four children.
AsExpression(ctx) == Rule("Expression", ctx.children)

\* C26: for the same call the FunctionCall production builder and the
\* four-child expression rule give the same callee and the same elements of
\* Arguments, Names and Identifiers in the same order; the production builder
\* gives present lists, the expression rule leaves a list absent when it has
\* no element (Names and Identifiers of a positional call, Arguments of a
\* call without arguments).
C26_SameElementsOtherEmptiness ==
  ProductionCallDone =>
    LET other == Visit(AsExpression(arg))
    IN /\ IsNode(other) /\ other.Type = res.Type
       /\ other.Expression = res.Expression
       /\ IsSlice(res.Arguments) /\ IsSlice(res.Names) /\ IsSlice(res.Identifiers)
       /\ Entries(other.Arguments) = res.Arguments.elems
       /\ Entries(other.Names) = res.Names.elems
       /\ Entries(other.Identifiers) = res.Identifiers.elems
       /\ IsNil(other.Arguments) <=> res.Arguments.elems = <<>>
       /\ IsNil(other.Names) <=> res.Names.elems = <<>>
       /\ IsNil(other.Identifiers) <=> res.Identifiers.elems = <<>>
       /\ ~IsNil(PositionalOf(arg)) => IsNil(other.Names) /\ IsNil(other.Identifiers)

\* The positional call f(a, 1) was built by the production builder: two
\* arguments, present empty Names; the expression rule leaves Names absent.
C26_Witness ==
  /\ ProductionCallDone
  /\ ~IsNil(PositionalOf(arg))
  /\ Len(res.Arguments.elems) = 2
  /\ res.Names = Slice(<<>>)
  /\ IsNil(Visit(AsExpression(arg)).Names)
  /\ Entries(Visit(AsExpression(arg)).Arguments) = res.Arguments.elems

\* The returns clause of a function definition, Nil without one.
ReturnsClause(ctx) == RuleOf(ctx, "ReturnParameters")

\* C27: StateMutability of a FunctionDefinition is the empty string whatever
\* mutability keyword is declared; ReturnParameters is read only for the
\* descriptor "function" and is absent for constructor, fallback and receive
\* even with a returns clause; a function that declares only a mutability
\* keyword has Visibility "default".
C27_MutabilityAndReturns ==
  (FunctionDone /\ IsNode(res)) =>
    /\ res.StateMutability = ""
    /\ DescriptorText # "function" => IsNil(res.ReturnParameters)
    /\ DescriptorText = "function" =>
         Entries(res.ReturnParameters)
           = IF IsNil(ReturnsClause(arg)) THEN <<>>
             ELSE VisitAll(AllRule(RuleOf(ReturnsClause(arg), "ParameterList"), "Parameter"))
    /\ (DescriptorText = "function" /\ TokensOf(RuleOf(arg, "ModifierList")) = {}) =>
         res.Visibility = "default"

\* constructor() pure returns (uint) {} was visited: no return parameters and
\* no state mutability in the node.
C27_Witness ==
  /\ FunctionDone /\ IsNode(res) /\ DescriptorText = "constructor"
  /\ ~IsNil(ReturnsClause(arg))
  /\ ~IsNil(RuleOf(RuleOf(arg, "ModifierList"), "StateMutability"))
  /\ IsNil(res.ReturnParameters) /\ res.StateMutability = ""

\* How many of the three kind flags of a function definition are set.
KindFlags(node) ==
  Cardinality({f \in {"IsConstructor", "IsFallback", "IsReceiveEther"} : node[f]})

\* C28: at most one of IsConstructor, IsFallback, IsReceiveEther is true; a
\* non-empty Name implies all three are false; a descriptor keyword other
\* than constructor, fallback, receive and function leaves all three false
\* and Visibility "default".
C28_KindFlagsExclusive ==
  (FunctionDone /\ IsNode(res)) =>
    /\ KindFlags(res) <= 1
    /\ res.Name # "" => KindFlags(res) = 0
    /\ DescriptorText \notin {"constructor", "fallback", "receive", "function"} =>
         KindFlags(res) = 0 /\ res.Visibility = "default"

\* A definition with a descriptor of no known kind and the keyword public was
\* visited: no flag set, visibility "default".
C28_Witness ==
  /\ FunctionDone /\ IsNode(res) /\ DescriptorText = "unknown"
  /\ "public" \in TokensOf(RuleOf(arg, "ModifierList"))
  /\ KindFlags(res) = 0 /\ res.Visibility = "default" /\ res.Name = ""

\* The fields of the nodes that hold nodes or lists of nodes.
NodeFields ==
  {"Expression", "TypeName", "Arguments", "Body", "Base", "Override", "Identifier",
   "IndexStart", "IndexEnd", "Identifiers", "Parameters", "SubExpression",
   "Components", "Variables", "TrueExpression", "FalseExpression", "Right", "Left",
   "ReturnTypes", "ParameterTypes", "ReturnParameters", "Modifiers",
   "LoopExpression", "Length", "InitialValue", "InitExpression", "Index",
   "ConditionExpression", "Condition", "Children", "BaseTypeName", "ValueType",
   "KeyType", "UnitAliasIdentifier", "SymbolAliasesIdentifiers", "SubNodes",
   "Statements", "PathLiteral", "BaseName", "BaseContracts", "Args"}

\* Every node in v, at any depth, has a non-empty tag.
RECURSIVE Tagged(_)
Tagged(v) ==
  IF IsNil(v) THEN TRUE
  ELSE IF IsSlice(v) THEN \A k \in 1..Len(v.elems) : Tagged(v.elems[k])
  ELSE IF IsNode(v)
  THEN v.Type # "" /\ \A f \in (DOMAIN v) \cap NodeFields : Tagged(v[f])
  ELSE TRUE

\* The tree a completed traversal returned: of Visit, or of Parse.
ReturnedTree ==
  IF op = "Parse" THEN res.Result ELSE res

TraversalDone ==
  /\ pc = "done" /\ op \in {"Visit", "Parse"}
  /\ ~IsPanic(res)

\* C29: in the tree a completed traversal returns, every node at any depth,
\* returned through Visit or built inline by a builder, has a non-empty tag.
C29_EveryNodeTagged == TraversalDone => Tagged(ReturnedTree)

\* A function with a parameter was visited: the parameter and its type name,
\* built two levels below the root, are tagged.
C29_Witness ==
  /\ TraversalDone /\ op = "Visit" /\ IsNode(res) /\ res.Type = "FunctionDefinition"
  /\ ~IsNil(res.Parameters)
  /\ res.Parameters.elems[1].Type = "VariableDeclaration"
  /\ res.Parameters.elems[1].TypeName.Type = "ElementaryTypeName"
  /\ res.Parameters.elems[1].Identifier.Type = "Identifier"

(***************************************************************************)
(* Properties of the traversal                                             *)
(***************************************************************************)
Distinct(s) == \A i, j \in 1..Len(s) : i # j => s[i] # s[j]

\* The number of nodes on the longest path from tree down to a leaf.
RECURSIVE Depth(_)
Depth(tree) ==
  IF tree.children = <<>> THEN 1
  ELSE LET depths == {Depth(tree.children[k]) : k \in 1..Len(tree.children)}
       IN 1 + CHOOSE d \in depths : \A x \in depths : x <= d

PendingPaths == [j \in 1..Len(pending) |-> pending[j].path]

\* Every call made or still to be made has its own node; the builder about
\* to run calls Visit on proper descendants only; no activation of Visit is
\* nested deeper than its node lies in the tree.
TraverseBounded ==
  op = "Traverse" =>
    /\ Distinct(visited \o PendingPaths)
    /\ pending # <<>> =>
         LET calls == visits(NodeAt(arg, Head(pending).path))
         IN \A j \in 1..Len(calls) : calls[j] # <<>>
    /\ \A j \in 1..Len(pending) :
         /\ pending[j].depth <= Len(pending[j].path) + 1
         /\ Len(pending[j].path) + 1 <= Depth(arg)

\* C30: every traversal of a CST terminates; all along it each builder calls
\* Visit on proper descendants of its own node only, so that the nesting of
\* Visit never exceeds the depth of the CST and no node is handed to Visit
\* twice.
C30_TraversalTerminates ==
  /\ []TraverseBounded
  /\ (op = "Traverse") ~> (pc = "done")

\* A traversal of a source unit has returned after at least eight calls of
\* Visit, one of them four levels below the root.
C30_Witness ==
  /\ op = "Traverse" /\ pc = "done" /\ arg.kind = "SourceUnit"
  /\ Len(visited) >= 8 /\ Distinct(visited)
  /\ \E j \in 1..Len(visited) : Len(visited[j]) >= 4

====
